---------------------------- MODULE Spec2Model ----------------------------
(***************************************************************************)
(* The authoritative state engine of the pixel game (the web worker of     *)
(* src/lib/workers/worker.ts): the command handler, the movement           *)
(* validation against the terrain map, the idle-decay interval timer and   *)
(* the demo progress task; and the render controller (the class Game):     *)
(* the movement cooldown, the receipt of the engine's events and the frame *)
(* loop.                                                                   *)
(*                                                                         *)
(* Time is Date.now() in milliseconds, counted from the moment the module  *)
(* was loaded; performance.now() is the same clock.  Timers are urgent: the clock does not    *)
(* pass the due time of a pending timer before its callback has run.       *)
(* A template literal is modelled as the tuple of its parts, the empty     *)
(* string as the empty tuple.                                              *)
(***************************************************************************)
EXTENDS Integers, Sequences, FiniteSets, TLC

(***************************************************************************)
(* Bounds of the model.                                                    *)
(***************************************************************************)
\* commands the environment sends in one run of Spec
MaxCmds == 3
\* horizon of Spec, in ms
MaxTime == 600
\* commands sent after the boot Start in one run of IdleSpec
MaxIdleCmds == 2
\* horizon of IdleSpec, in ms: past the SLEEPING threshold
MaxIdleTime == 31000
\* commands sent in one run of TableSpec
MaxTableCmds == 3
\* ProgressSpec: number of commands
MaxProgressCmds == 2
\* calls, key presses and events given to the Game in one run of CtrlSpec,
\* after the click that starts it
MaxCtrlInputs == 2
\* horizon of CtrlSpec, in ms
MaxCtrlTime == 300
\* calls, inputs and events given to the Game in one run of AnimSpec
MaxAnimInputs == 2
\* horizon of AnimSpec, in ms
MaxAnimTime == 6500
\* calls, key presses and events given to the Game in one run of CooldownSpec
MaxCooldownInputs == 3
\* horizon of CooldownSpec, in ms
MaxCooldownTime == 400
\* calls and key presses given to the Game in one run of SystemSpec
MaxSystemInputs == 4
\* horizon of SystemSpec, in ms
MaxSystemTime == 520
\* longest time a message is on its way on the channel in SystemSpec, in ms
MaxLatency == 20
\* commands given to the worker in one run of WalkSpec
MaxWalkCmds == 24
\* changes of the animation settings in one run of DrawSpec
MaxDrawInputs == 1
\* horizon of DrawSpec, in ms
MaxDrawTime == 60
\* the amounts of time, in ms, the clock advances by in one step
ClockSteps == {100}
\* the step delays a Start command may carry instead of the default
CommandTimes == {300}
\* task names the worker does not know
UnknownTasks == {"PING"}

(***************************************************************************)
(* types.ts                                                                *)
(***************************************************************************)
STATUS_FINISHED == "STATUS_FINISHED"
STATUS_PROCESSING == "STATUS_PROCESSING"
STATUS_IDLE == "STATUS_IDLE"
STATUS_ERROR == "STATUS_ERROR"

MESSAGE_START == "START"
MESSAGE_GAME_UPDATE == "GAME_UPDATE"

TERRAIN == {"W", "B", "F", "M", "G", "R", "S", "H"}

terrainNames ==
  [t \in TERRAIN |->
     CASE t = "W" -> "Water"
       [] t = "B" -> "Beach"
       [] t = "F" -> "Forest"
       [] t = "M" -> "Mountain"
       [] t = "G" -> "Grassland"
       [] t = "R" -> "River"
       [] t = "S" -> "Swamp"
       [] t = "H" -> "Hills"]

\* the movement directions, and the facing-only values of type Direction
MoveDirections == {"up", "down", "left", "right"}
Direction == MoveDirections \cup {"back", "front"}

(***************************************************************************)
(* game/state.ts                                                           *)
(***************************************************************************)
ACTIVE == "active"
RESTING == "resting"
IDLE == "idle"
SLEEPING == "sleeping"
IdleState == {ACTIVE, RESTING, IDLE, SLEEPING}

IdleThresholds == [RESTING |-> 200, IDLE |-> 5000, SLEEPING |-> 30000]

(***************************************************************************)
(* workers/worker.ts: the terrain table and the world map                  *)
(***************************************************************************)
\* terrainProperties with Water walkable
terrainProperties_waterWalkable ==
  [t \in TERRAIN |->
     CASE t = "W" -> [walkable |-> TRUE, name |-> "Water"]
       [] t = "B" -> [walkable |-> TRUE, name |-> "Beach"]
       [] t = "F" -> [walkable |-> TRUE, name |-> "Forest"]
       [] t = "M" -> [walkable |-> FALSE, name |-> "Mountain"]
       [] t = "G" -> [walkable |-> TRUE, name |-> "Grassland"]
       [] t = "R" -> [walkable |-> TRUE, name |-> "River"]
       [] t = "S" -> [walkable |-> TRUE, name |-> "Swamp"]
       [] t = "H" -> [walkable |-> TRUE, name |-> "Hills"]]

terrainProperties ==
  [t \in TERRAIN |->
     CASE t = "W" -> [walkable |-> FALSE, name |-> "Water"]
       [] t = "B" -> [walkable |-> TRUE, name |-> "Beach"]
       [] t = "F" -> [walkable |-> TRUE, name |-> "Forest"]
       [] t = "M" -> [walkable |-> FALSE, name |-> "Mountain"]
       [] t = "G" -> [walkable |-> TRUE, name |-> "Grassland"]
       [] t = "R" -> [walkable |-> TRUE, name |-> "River"]
       [] t = "S" -> [walkable |-> TRUE, name |-> "Swamp"]
       [] t = "H" -> [walkable |-> TRUE, name |-> "Hills"]]

\* the map with the river of row 5 flowing out through the west border
terrainMap_riverMouth ==
  << <<"W","W","W","W","W","W","W","W","W","W","W","W","W","W","W","W","W","W","W","W">>,
     <<"W","W","B","B","B","B","B","B","B","B","B","B","B","B","B","B","B","B","W","W">>,
     <<"W","B","G","G","F","F","F","H","H","M","H","H","F","F","F","G","G","B","B","W">>,
     <<"W","B","G","F","F","H","H","M","M","M","M","H","H","F","F","F","G","G","B","W">>,
     <<"W","B","F","F","H","H","M","M","M","M","M","M","H","H","F","F","F","G","B","W">>,
     <<"R","R","R","F","H","M","M","M","M","M","M","M","M","H","H","R","F","B","B","W">>,
     <<"W","S","R","F","H","H","M","M","M","M","M","H","R","F","F","F","G","B","B","W">>,
     <<"W","B","G","R","F","H","H","M","M","M","M","H","R","F","F","F","G","B","B","W">>,
     <<"W","B","G","F","R","F","H","H","H","H","H","R","F","F","F","G","B","B","W","W">>,
     <<"W","B","G","F","F","R","F","F","F","R","R","F","F","F","G","G","B","B","W","W">>,
     <<"W","B","G","F","F","F","R","R","R","F","F","F","F","G","G","B","B","W","W","W">>,
     <<"W","S","R","F","F","F","F","F","F","F","F","G","G","G","B","B","W","W","W","W">>,
     <<"W","B","B","G","G","G","G","G","G","G","G","G","B","B","B","W","W","W","W","W">>,
     <<"W","W","B","B","B","B","B","B","B","B","B","B","B","B","W","W","W","W","W","W">>,
     <<"W","W","W","W","W","W","W","W","W","W","W","W","W","W","W","W","W","W","W","W">> >>

terrainMap ==
  << <<"W","W","W","W","W","W","W","W","W","W","W","W","W","W","W","W","W","W","W","W">>,
     <<"W","W","B","B","B","B","B","B","B","B","B","B","B","B","B","B","B","B","W","W">>,
     <<"W","B","G","G","F","F","F","H","H","M","H","H","F","F","F","G","G","B","B","W">>,
     <<"W","B","G","F","F","H","H","M","M","M","M","H","H","F","F","F","G","G","B","W">>,
     <<"W","B","F","F","H","H","M","M","M","M","M","M","H","H","F","F","F","G","B","W">>,
     <<"W","R","R","F","H","M","M","M","M","M","M","M","M","H","H","R","F","B","B","W">>,
     <<"W","S","R","F","H","H","M","M","M","M","M","H","R","F","F","F","G","B","B","W">>,
     <<"W","B","G","R","F","H","H","M","M","M","M","H","R","F","F","F","G","B","B","W">>,
     <<"W","B","G","F","R","F","H","H","H","H","H","R","F","F","F","G","B","B","W","W">>,
     <<"W","B","G","F","F","R","F","F","F","R","R","F","F","F","G","G","B","B","W","W">>,
     <<"W","B","G","F","F","F","R","R","R","F","F","F","F","G","G","B","B","W","W","W">>,
     <<"W","S","R","F","F","F","F","F","F","F","F","G","G","G","B","B","W","W","W","W">>,
     <<"W","B","B","G","G","G","G","G","G","G","G","G","B","B","B","W","W","W","W","W">>,
     <<"W","W","B","B","B","B","B","B","B","B","B","B","B","B","W","W","W","W","W","W">>,
     <<"W","W","W","W","W","W","W","W","W","W","W","W","W","W","W","W","W","W","W","W">> >>

\* terrainMap[position.y][position.x], with the source's 0-based indices
terrainAt(position) == terrainMap[position.y + 1][position.x + 1]

\* isInBounds that takes the border cells for the outside
isInBounds_excludesBorder(position) ==
  /\ position.x >= 1
  /\ position.x < Len(terrainMap[1]) - 1
  /\ position.y >= 1
  /\ position.y < Len(terrainMap) - 1

isInBounds(position) ==
  /\ position.x >= 0
  /\ position.x < Len(terrainMap[1])
  /\ position.y >= 0
  /\ position.y < Len(terrainMap)

\* canMove without the terrain lookup: every cell inside the map is walkable
canMove_boundsOnly(position) == isInBounds(position)

canMove(position) ==
  IF ~isInBounds(position) THEN FALSE
  ELSE terrainProperties[terrainAt(position)].walkable

(***************************************************************************)
(* State of the worker                                                     *)
(***************************************************************************)
VARIABLES
  now,                \* Date.now()
  gameState,          \* the module-level gameState object
  idleCheckInterval,  \* the handle kept in idleCheckInterval, 0 = undefined
  intervals,          \* the active setInterval timers: [id, due]
  nextTimerId,        \* the handle the next setInterval returns
  tasks,              \* the suspended longRunningFunction calls: [i, time, due]
  posted,             \* the events postMessage sent during the last step
  ncmds,              \* commands received so far
  game,               \* the fields of the Game object
  gameStarted,        \* the page's gameStarted flag
  timeouts,           \* the due times of the pending setTimeout callbacks of move
  animationFrames,    \* the pending requestAnimationFrame callbacks: [id, due]
  nextFrameId,        \* the handle the next requestAnimationFrame returns
  sent,               \* the messages Game has posted to the worker: [data, at]
  dispatched,         \* the gamestateupdate events dispatched during the last step
  drawn,              \* whether the last step called render
  ninputs,            \* calls, key presses and events the Game has been given
  lastInput,          \* the last of them: its kind and its argument
  canvas,             \* the canvas: its width, its height, the drawing calls
                      \* made on it since it was last cleared
  listeners,          \* the event listeners attached to the window
  random,             \* the values Math.random returns
  inflight            \* the events of the worker on their way to the Game, the
                      \* oldest first, where the two are joined by the channel

gameVars == <<game, gameStarted, timeouts, animationFrames, nextFrameId, sent, dispatched,
              drawn, ninputs, lastInput, canvas, listeners, random, inflight>>

vars == <<now, gameState, idleCheckInterval, intervals, nextTimerId, tasks,
          posted, ncmds, game, gameStarted, timeouts, animationFrames, nextFrameId, sent,
          dispatched, drawn, ninputs, lastInput, canvas, listeners, random, inflight>>

SpawnPosition == [x |-> 2, y |-> 2]

InitialGameState ==
  [position |-> SpawnPosition,
   facing |-> "down",
   isMoving |-> FALSE,
   terrain |-> "G",
   currentTerrain |-> "G",
   status |-> STATUS_IDLE,
   message |-> <<>>,
   isStarted |-> FALSE,
   idleState |-> ACTIVE,
   lastActivityTime |-> 0]

\* the frames per second of the GameConfig the page constructs the Game with
configFps == 30

(***************************************************************************)
(* The clouds.  Lengths are in thousandths of a pixel, opacities in        *)
(* thousandths, phases in millionths of a radian.  Math.random returns     *)
(* tenths; a stream gives, for the cloud of each index, the values drawn   *)
(* for its size, x, y, speed and opacity.                                  *)
(***************************************************************************)
CLOUD_COUNT == 8
MIN_CLOUD_SPEED == 50
MAX_CLOUD_SPEED == 200

\* every draw returns 0
RandomLow ==
  [index \in 0..(CLOUD_COUNT - 1) |->
     [size |-> 0, x |-> 0, y |-> 0, speed |-> 0, opacity |-> 0]]
\* small, fast clouds placed far to the right
RandomFar ==
  [index \in 0..(CLOUD_COUNT - 1) |->
     [size |-> 0, x |-> 9, y |-> 5, speed |-> 9, opacity |-> 5]]
RandomStreams == {RandomLow, RandomFar}

\* createCloud that places a forced cloud like any other
createCloud_ignoresForce(index, forceOffscreen, cv) ==
  LET size == 60000 + random[index].size * 10000
  IN [x |-> index * ((cv.width * 1000) \div CLOUD_COUNT) + random[index].x * 20000,
      y |-> (random[index].y * (cv.height * 400)) \div 10,
      speed |-> MIN_CLOUD_SPEED
                  + (random[index].speed * (MAX_CLOUD_SPEED - MIN_CLOUD_SPEED)) \div 10,
      size |-> size,
      opacity |-> 400 + random[index].opacity * 30]

\* createCloud on a canvas cv
createCloud(index, forceOffscreen, cv) ==
  LET size == 60000 + random[index].size * 10000
  IN [x |-> IF forceOffscreen
            THEN 0 - size
            ELSE index * ((cv.width * 1000) \div CLOUD_COUNT)
                   + random[index].x * 20000,
      y |-> (random[index].y * (cv.height * 400)) \div 10,
      speed |-> MIN_CLOUD_SPEED
                  + (random[index].speed * (MAX_CLOUD_SPEED - MIN_CLOUD_SPEED)) \div 10,
      size |-> size,
      opacity |-> 400 + random[index].opacity * 30]

\* the array initializeClouds builds
newClouds(cv) == [i \in 1..CLOUD_COUNT |-> createCloud(i - 1, FALSE, cv)]

\* the canvas element of the page
InitialCanvas == [width |-> 800, height |-> 600, ops |-> <<>>]

\* a method bound at a call site: every call of bind makes a new function
bound(method, site) == [method |-> method, site |-> site]

\* the listeners setupEventListeners attaches
setupEventListeners ==
  {[type |-> "keydown", fn |-> bound("handleKeyDown", "setupEventListeners")],
   [type |-> "resize", fn |-> bound("handleResize", "setupEventListeners")]}

\* the Game object the constructor leaves; a quotient of two numbers is kept
\* as the pair <<dividend, divisor>>, null and undefined as 0 or <<>>
InitialGame ==
  [animationSettings |-> [enableClouds |-> FALSE, enableWaves |-> FALSE,
                          enableRiver |-> FALSE],
   clouds |-> newClouds(InitialCanvas),
   cloudOffset |-> 0,
   waterOffset |-> 0,
   riverOffset |-> 0,
   lastAnimationUpdate |-> 0,
   animationFrame |-> 0,
   lastFrameTime |-> 0,
   frameThrottle |-> <<1000, IF configFps # 0 THEN configFps ELSE 30>>,
   movementCooldown |-> FALSE,
   state |-> [position |-> [x |-> 2, y |-> 2],
              facing |-> "down",
              isMoving |-> FALSE,
              terrain |-> "G",
              status |-> STATUS_IDLE,
              message |-> <<>>,
              isStarted |-> FALSE,
              idleState |-> ACTIVE,
              lastActivityTime |-> 0],
   isRunning |-> FALSE,
   currentTerrain |-> "G",
   terrainMap |-> <<>>,
   worker |-> "running"]

\* the controller after new Game(config)
GameConstructed ==
  /\ canvas = InitialCanvas
  /\ listeners = setupEventListeners
  /\ inflight = <<>>
  /\ game = [InitialGame EXCEPT !.state.lastActivityTime = now]
  /\ gameStarted = FALSE
  /\ timeouts = <<>>
  /\ animationFrames = {}
  /\ nextFrameId = 1
  /\ sent = <<>>
  /\ dispatched = <<>>
  /\ drawn = FALSE
  /\ ninputs = 0
  /\ lastInput = <<>>

GameInit == random = RandomLow /\ GameConstructed

Init ==
  /\ now = 0
  /\ gameState = InitialGameState
  /\ idleCheckInterval = 0
  /\ intervals = {}
  /\ nextTimerId = 1
  /\ tasks = <<>>
  /\ posted = <<>>
  /\ ncmds = 0
  /\ GameInit

(***************************************************************************)
(* startIdleCheck and the callback of its interval timer                   *)
(***************************************************************************)
\* period of the setInterval of startIdleCheck
idleCheckPeriod == 500

\* newIdleState with strict comparisons: a threshold is passed, not reached
newIdleState_strict(timeSinceLastActivity) ==
  IF timeSinceLastActivity > IdleThresholds.SLEEPING THEN SLEEPING
  ELSE IF timeSinceLastActivity > IdleThresholds.IDLE THEN IDLE
  ELSE IF timeSinceLastActivity > IdleThresholds.RESTING THEN RESTING
  ELSE ACTIVE

\* the if-chain of the interval callback
newIdleState(timeSinceLastActivity) ==
  IF timeSinceLastActivity >= IdleThresholds.SLEEPING THEN SLEEPING
  ELSE IF timeSinceLastActivity >= IdleThresholds.IDLE THEN IDLE
  ELSE IF timeSinceLastActivity >= IdleThresholds.RESTING THEN RESTING
  ELSE ACTIVE

\* the callback posting the state at every tick, changed or not
idleCheckCallback_alwaysPosts ==
  LET timeSinceLastActivity == now - gameState.lastActivityTime
      new == newIdleState(timeSinceLastActivity)
      gs == [gameState EXCEPT !.idleState = new]
  IN [gameState |-> gs,
      posted |-> << [status |-> STATUS_PROCESSING,
                     gameState |-> gs,
                     message |-> <<"State changed to ", new>>] >>]

\* the callback changing the state without posting it
idleCheckCallback_silent ==
  LET timeSinceLastActivity == now - gameState.lastActivityTime
      new == newIdleState(timeSinceLastActivity)
  IN [gameState |-> [gameState EXCEPT !.idleState = new], posted |-> <<>>]

\* the callback: the gameState it leaves and the events it posts
idleCheckCallback ==
  LET timeSinceLastActivity == now - gameState.lastActivityTime
      new == newIdleState(timeSinceLastActivity)
      gs == [gameState EXCEPT !.idleState = new]
  IN IF new # gameState.idleState
     THEN [gameState |-> gs,
           posted |-> << [status |-> STATUS_PROCESSING,
                          gameState |-> gs,
                          message |-> <<"State changed to ", new>>] >>]
     ELSE [gameState |-> gameState, posted |-> <<>>]

\* startIdleCheck that does not clear the timer of the handle
startIdleCheck_keepsOld ==
  [idleCheckInterval |-> nextTimerId,
   intervals |-> intervals \cup {[id |-> nextTimerId, due |-> now + idleCheckPeriod]},
   nextTimerId |-> nextTimerId + 1]

\* startIdleCheck: clear the timer of the handle, start a new one
startIdleCheck ==
  LET kept == IF idleCheckInterval # 0
              THEN {t \in intervals : t.id # idleCheckInterval}
              ELSE intervals
  IN [idleCheckInterval |-> nextTimerId,
      intervals |-> kept \cup {[id |-> nextTimerId, due |-> now + idleCheckPeriod]},
      nextTimerId |-> nextTimerId + 1]

(***************************************************************************)
(* longRunningFunction                                                     *)
(***************************************************************************)
total == 100
defaultTime == 100

\* the call up to its first await: one more suspended task
longRunningFunction(time) ==
  Append(tasks, [i |-> 0, time |-> time, due |-> now + time])

\* progressStep whose loop test is i <= total
progressStep_inclusiveBound(k) ==
  LET t == tasks[k]
      progress == [status |-> STATUS_PROCESSING, step |-> t.i + 1, total |-> total]
      finished == [status |-> STATUS_FINISHED,
                   result |-> t.time * total,
                   message |-> <<"Task finished with time = ", ToString(t.time)>>]
  IN IF t.i + 1 <= total
     THEN [posted |-> <<progress>>,
           tasks |-> [tasks EXCEPT ![k] = [i |-> t.i + 1, time |-> t.time,
                                           due |-> now + t.time]]]
     ELSE [posted |-> <<progress, finished>>,
           tasks |-> SubSeq(tasks, 1, k - 1) \o SubSeq(tasks, k + 1, Len(tasks))]

\* progressStep whose progress events carry the gameState snapshot
progressStep_withSnapshot(k) ==
  LET t == tasks[k]
      progress == [status |-> STATUS_PROCESSING, step |-> t.i + 1, total |-> total,
                   gameState |-> gameState]
      finished == [status |-> STATUS_FINISHED,
                   result |-> t.time * total,
                   message |-> <<"Task finished with time = ", ToString(t.time)>>]
  IN IF t.i + 1 < total
     THEN [posted |-> <<progress>>,
           tasks |-> [tasks EXCEPT ![k] = [i |-> t.i + 1, time |-> t.time,
                                           due |-> now + t.time]]]
     ELSE [posted |-> <<progress, finished>>,
           tasks |-> SubSeq(tasks, 1, k - 1) \o SubSeq(tasks, k + 1, Len(tasks))]

\* the continuation of task k after its timeout: the events it posts and
\* the tasks it leaves
progressStep(k) ==
  LET t == tasks[k]
      progress == [status |-> STATUS_PROCESSING, step |-> t.i + 1, total |-> total]
      finished == [status |-> STATUS_FINISHED,
                   result |-> t.time * total,
                   message |-> <<"Task finished with time = ", ToString(t.time)>>]
  IN IF t.i + 1 < total
     THEN [posted |-> <<progress>>,
           tasks |-> [tasks EXCEPT ![k] = [i |-> t.i + 1, time |-> t.time,
                                           due |-> now + t.time]]]
     ELSE [posted |-> <<progress, finished>>,
           tasks |-> SubSeq(tasks, 1, k - 1) \o SubSeq(tasks, k + 1, Len(tasks))]

(***************************************************************************)
(* handleMovement                                                          *)
(***************************************************************************)
\* newPos with the vertical axis reversed
newPos_upIncreasesY(position, direction) ==
  CASE direction = "left" -> [x |-> position.x - 1, y |-> position.y]
    [] direction = "right" -> [x |-> position.x + 1, y |-> position.y]
    [] direction = "up" -> [x |-> position.x, y |-> position.y + 1]
    [] direction = "down" -> [x |-> position.x, y |-> position.y - 1]

\* the switch that computes newPos; defined for the four movement directions
newPos(position, direction) ==
  CASE direction = "left" -> [x |-> position.x - 1, y |-> position.y]
    [] direction = "right" -> [x |-> position.x + 1, y |-> position.y]
    [] direction = "up" -> [x |-> position.x, y |-> position.y - 1]
    [] direction = "down" -> [x |-> position.x, y |-> position.y + 1]

\* movementMessage whose blocked message names the terrain the player
\* stands on
movementMessage_blockedByOwnCell(position, target, direction) ==
  IF canMove(target)
  THEN <<"Moved ", direction, " from ", terrainNames[terrainAt(position)],
         " to ", terrainNames[terrainAt(target)]>>
  ELSE <<"Cannot move ", direction, " - blocked by ",
         IF isInBounds(target) THEN terrainNames[terrainAt(position)]
         ELSE "boundary">>

\* the message of a movement to target
movementMessage(position, target, direction) ==
  IF canMove(target)
  THEN <<"Moved ", direction, " from ", terrainNames[terrainAt(position)],
         " to ", terrainNames[terrainAt(target)]>>
  ELSE <<"Cannot move ", direction, " - blocked by ",
         IF isInBounds(target) THEN terrainNames[terrainAt(target)]
         ELSE "boundary">>

\* handleMovement whose second test is isInBounds instead of canMove: a
\* blocked move into a cell of the map is carried out
handleMovement_movesIfInBounds(gs0, direction) ==
  LET gs1 == [gs0 EXCEPT !.lastActivityTime = now,
                         !.idleState = ACTIVE,
                         !.facing = direction]
  IN IF direction \notin MoveDirections
     THEN [gameState |-> gs1, posted |-> <<>>,
           thrown |-> <<"Invalid direction: ", direction>>]
     ELSE
       LET target == newPos(gs1.position, direction)
           message == movementMessage(gs1.position, target, direction)
       IN IF isInBounds(target)
          THEN LET gs2 == [gs1 EXCEPT !.position = target,
                                      !.currentTerrain = terrainAt(target),
                                      !.terrain = terrainAt(target),
                                      !.message = message]
               IN [gameState |-> gs2,
                   posted |-> << [status |-> STATUS_PROCESSING,
                                  gameState |-> gs2,
                                  message |-> message,
                                  terrainMap |-> terrainMap] >>,
                   thrown |-> <<>>]
          ELSE LET gs2 == [gs1 EXCEPT !.message = message]
               IN [gameState |-> gs2,
                   posted |-> << [status |-> STATUS_ERROR,
                                  gameState |-> gs2,
                                  message |-> message,
                                  terrainMap |-> terrainMap] >>,
                   thrown |-> <<>>]

\* handleMovement whose blocked branch does not store the message in
\* gameState
handleMovement_blockedKeepsMessage(gs0, direction) ==
  LET gs1 == [gs0 EXCEPT !.lastActivityTime = now,
                         !.idleState = ACTIVE,
                         !.facing = direction]
  IN IF direction \notin MoveDirections
     THEN [gameState |-> gs1, posted |-> <<>>,
           thrown |-> <<"Invalid direction: ", direction>>]
     ELSE
       LET target == newPos(gs1.position, direction)
           message == movementMessage(gs1.position, target, direction)
       IN IF canMove(target)
          THEN LET gs2 == [gs1 EXCEPT !.position = target,
                                      !.currentTerrain = terrainAt(target),
                                      !.terrain = terrainAt(target),
                                      !.message = message]
               IN [gameState |-> gs2,
                   posted |-> << [status |-> STATUS_PROCESSING,
                                  gameState |-> gs2,
                                  message |-> message,
                                  terrainMap |-> terrainMap] >>,
                   thrown |-> <<>>]
          ELSE [gameState |-> gs1,
                posted |-> << [status |-> STATUS_ERROR,
                               gameState |-> gs1,
                               message |-> message,
                               terrainMap |-> terrainMap] >>,
                thrown |-> <<>>]

\* handleMovement that takes the player to the target without testing it
handleMovement_movesUntested(gs0, direction) ==
  LET gs1 == [gs0 EXCEPT !.lastActivityTime = now,
                         !.idleState = ACTIVE,
                         !.facing = direction]
  IN IF direction \notin MoveDirections
     THEN [gameState |-> gs1, posted |-> <<>>,
           thrown |-> <<"Invalid direction: ", direction>>]
     ELSE
       LET target == newPos(gs1.position, direction)
           message == <<"Moved ", direction>>
           gs2 == [gs1 EXCEPT !.position = target,
                              !.currentTerrain = terrainAt(target),
                              !.terrain = terrainAt(target),
                              !.message = message]
       IN [gameState |-> gs2,
           posted |-> << [status |-> STATUS_PROCESSING,
                          gameState |-> gs2,
                          message |-> message,
                          terrainMap |-> terrainMap] >>,
           thrown |-> <<>>]

\* handleMovement that keeps the terrain of the cell the player leaves
handleMovement_terrainOfOldCell(gs0, direction) ==
  LET gs1 == [gs0 EXCEPT !.lastActivityTime = now,
                         !.idleState = ACTIVE,
                         !.facing = direction]
  IN IF direction \notin MoveDirections
     THEN [gameState |-> gs1, posted |-> <<>>,
           thrown |-> <<"Invalid direction: ", direction>>]
     ELSE
       LET target == newPos(gs1.position, direction)
           message == movementMessage(gs1.position, target, direction)
       IN IF canMove(target)
          THEN LET gs2 == [gs1 EXCEPT !.position = target,
                                      !.currentTerrain = terrainAt(gs1.position),
                                      !.terrain = terrainAt(gs1.position),
                                      !.message = message]
               IN [gameState |-> gs2,
                   posted |-> << [status |-> STATUS_PROCESSING,
                                  gameState |-> gs2,
                                  message |-> message,
                                  terrainMap |-> terrainMap] >>,
                   thrown |-> <<>>]
          ELSE LET gs2 == [gs1 EXCEPT !.message = message]
               IN [gameState |-> gs2,
                   posted |-> << [status |-> STATUS_ERROR,
                                  gameState |-> gs2,
                                  message |-> message,
                                  terrainMap |-> terrainMap] >>,
                   thrown |-> <<>>]

\* handleMovement, called on gameState gs0: the gameState it leaves, the
\* events it posts and the message of the Error it throws (<<>> if none)
handleMovement(gs0, direction) ==
  LET gs1 == [gs0 EXCEPT !.lastActivityTime = now,
                         !.idleState = ACTIVE,
                         !.facing = direction]
  IN IF direction \notin MoveDirections
     THEN [gameState |-> gs1, posted |-> <<>>,
           thrown |-> <<"Invalid direction: ", direction>>]
     ELSE
       LET target == newPos(gs1.position, direction)
           message == movementMessage(gs1.position, target, direction)
       IN IF canMove(target)
          THEN LET gs2 == [gs1 EXCEPT !.position = target,
                                      !.currentTerrain = terrainAt(target),
                                      !.terrain = terrainAt(target),
                                      !.message = message]
               IN [gameState |-> gs2,
                   posted |-> << [status |-> STATUS_PROCESSING,
                                  gameState |-> gs2,
                                  message |-> message,
                                  terrainMap |-> terrainMap] >>,
                   thrown |-> <<>>]
          ELSE LET gs2 == [gs1 EXCEPT !.message = message]
               IN [gameState |-> gs2,
                   posted |-> << [status |-> STATUS_ERROR,
                                  gameState |-> gs2,
                                  message |-> message,
                                  terrainMap |-> terrainMap] >>,
                   thrown |-> <<>>]

(***************************************************************************)
(* self.onmessage and handleGameStart                                      *)
(***************************************************************************)
\* the event the catch block of onmessage posts
errorEvent(message) == [status |-> STATUS_ERROR, message |-> message]

\* handleGameStart, called on gameState gs0: the whole worker state it leaves
handleGameStart(gs0, time) ==
  LET timer == startIdleCheck
  IN [gameState |-> gs0,
      idleCheckInterval |-> timer.idleCheckInterval,
      intervals |-> timer.intervals,
      nextTimerId |-> timer.nextTimerId,
      tasks |-> longRunningFunction(time),
      posted |-> << [status |-> STATUS_PROCESSING,
                     message |-> <<"Game initialized">>,
                     gameState |-> gs0,
                     terrainMap |-> terrainMap] >>]

\* what a handler that starts no timer and no task leaves of the worker
unchangedTimers(gs, events) ==
  [gameState |-> gs,
   idleCheckInterval |-> idleCheckInterval,
   intervals |-> intervals,
   nextTimerId |-> nextTimerId,
   tasks |-> tasks,
   posted |-> events]

\* self.onmessage on the message data: the whole worker state it leaves
onmessage(data) ==
  LET gs0 == [gameState EXCEPT !.lastActivityTime = now]
  IN IF data.task = MESSAGE_START
     THEN handleGameStart(gs0, IF "time" \in DOMAIN data THEN data.time
                                ELSE defaultTime)
     ELSE IF data.task = MESSAGE_GAME_UPDATE
     THEN IF "direction" \in DOMAIN data
          THEN LET r == handleMovement(gs0, data.direction)
               IN IF r.thrown # <<>>
                  THEN unchangedTimers(r.gameState, <<errorEvent(r.thrown)>>)
                  ELSE unchangedTimers(r.gameState, r.posted)
          ELSE unchangedTimers(gs0, <<>>)
     ELSE unchangedTimers(gs0, <<errorEvent(<<"Unknown task: ", data.task>>)>>)

(***************************************************************************)
(* Actions                                                                 *)
(***************************************************************************)
\* Receive when the progress task keeps the worker busy until it has finished
Receive_afterTasks(data) ==
  LET r == onmessage(data)
  IN /\ tasks = <<>>
     /\ gameState' = r.gameState
     /\ idleCheckInterval' = r.idleCheckInterval
     /\ intervals' = r.intervals
     /\ nextTimerId' = r.nextTimerId
     /\ tasks' = r.tasks
     /\ posted' = r.posted
     /\ ncmds' = ncmds + 1
     /\ now' = now
     /\ UNCHANGED gameVars

\* the worker receives the message data and runs onmessage to its end
Receive(data) ==
  LET r == onmessage(data)
  IN /\ gameState' = r.gameState
     /\ idleCheckInterval' = r.idleCheckInterval
     /\ intervals' = r.intervals
     /\ nextTimerId' = r.nextTimerId
     /\ tasks' = r.tasks
     /\ posted' = r.posted
     /\ ncmds' = ncmds + 1
     /\ now' = now
     /\ UNCHANGED gameVars

Start == Receive([task |-> MESSAGE_START])

StartWithTime(time) == Receive([task |-> MESSAGE_START, time |-> time])

Move(direction) == Receive([task |-> MESSAGE_GAME_UPDATE, direction |-> direction])

UpdateWithoutDirection == Receive([task |-> MESSAGE_GAME_UPDATE])

UnknownTask(task) == Receive([task |-> task])

\* the due times of all pending timers
dueTimes ==
  {t.due : t \in intervals} \cup {tasks[k].due : k \in 1..Len(tasks)}
    \cup {timeouts[k] : k \in 1..Len(timeouts)}
    \cup {f.due : f \in animationFrames}

\* the interval timer t fires: its callback runs and it is due again one
\* period later
IdleCheck(t) ==
  /\ t \in intervals
  /\ t.due = now
  /\ LET r == idleCheckCallback
     IN /\ gameState' = r.gameState
        /\ posted' = r.posted
  /\ intervals' = (intervals \ {t}) \cup {[id |-> t.id, due |-> now + idleCheckPeriod]}
  /\ UNCHANGED <<now, idleCheckInterval, nextTimerId, tasks, ncmds>>
  /\ UNCHANGED gameVars

\* the timeout of the suspended task k fires: the task runs to its next await
\* or to its end
ProgressStep(k) ==
  /\ k \in 1..Len(tasks)
  /\ tasks[k].due = now
  /\ LET r == progressStep(k)
     IN /\ tasks' = r.tasks
        /\ posted' = r.posted
  /\ UNCHANGED <<now, gameState, idleCheckInterval, intervals, nextTimerId, ncmds>>
  /\ UNCHANGED gameVars

\* time passes, up to horizon and not beyond the next due timer
Advance(dt, horizon) ==
  /\ now + dt <= horizon
  /\ \A d \in dueTimes : now + dt <= d
  /\ now' = now + dt
  /\ posted' = <<>>
  /\ UNCHANGED <<gameState, idleCheckInterval, intervals, nextTimerId, tasks, ncmds>>
  /\ UNCHANGED gameVars

(***************************************************************************)
(* The render controller: the class Game.  Its methods are operators on a  *)
(* context c, the record of what a call may change: the Game object, the   *)
(* pending timeouts and frame callbacks, the messages posted to the worker,*)
(* the events dispatched, whether render was called, the canvas with the   *)
(* drawing calls last made on it, and the listeners of the window.         *)
(***************************************************************************)
\* length of the movement cooldown, in ms
movementCooldownDelay == 200
\* time from requestAnimationFrame to its callback, in ms
refreshPeriod == 20

\* the context at the beginning of a step
context ==
  [game |-> game, timeouts |-> timeouts, animationFrames |-> animationFrames,
   nextFrameId |-> nextFrameId, sent |-> sent, dispatched |-> <<>>,
   drawn |-> FALSE, canvas |-> canvas, listeners |-> listeners,
   inflight |-> inflight]

\* handleStateUpdate: currentTerrain follows the state, the event is
\* dispatched with the state and the map as they are now
handleStateUpdate(c) ==
  [c EXCEPT !.game.currentTerrain = c.game.state.terrain,
            !.dispatched = Append(@, [state |-> c.game.state,
                                      currentTerrain |-> c.game.state.terrain,
                                      terrainMap |-> c.game.terrainMap,
                                      message |-> c.game.state.message])]

\* { ...b, ...a }: the fields of the first object win
spread_reversed(a, b) ==
  [f \in DOMAIN a \cup DOMAIN b |-> IF f \in DOMAIN a THEN a[f] ELSE b[f]]

\* { ...a, ...b }
spread(a, b) ==
  [f \in DOMAIN a \cup DOMAIN b |-> IF f \in DOMAIN b THEN b[f] ELSE a[f]]

\* worker.onmessage of setupWorker on the event data e
workerOnmessage(c, e) ==
  LET hasMessage == "message" \in DOMAIN e /\ e.message # <<>>
      c1 == IF "gameState" \in DOMAIN e
            THEN handleStateUpdate(
                   [c EXCEPT !.game.state =
                      [spread(c.game.state, e.gameState) EXCEPT
                         !.message = IF hasMessage THEN e.message
                                     ELSE c.game.state.message]])
            ELSE c
      c2 == IF "terrainMap" \in DOMAIN e
            THEN [c1 EXCEPT !.game.terrainMap = e.terrainMap]
            ELSE c1
  IN IF hasMessage
     THEN handleStateUpdate([c2 EXCEPT !.game.state.message = e.message])
     ELSE c2

\* getFrameThrottleForState
getFrameThrottleForState(state) ==
  CASE state = RESTING -> <<1000, 20>>
    [] state = IDLE -> <<1000, 10>>
    [] state = SLEEPING -> <<1000, 5>>
    [] OTHER -> <<1000, 30>>

\* move that turns the player before it tests the cooldown
move_turnsBeforeTest(c, direction) ==
  IF c.game.movementCooldown \/ ~c.game.isRunning
  THEN [c EXCEPT !.game.state.facing = direction]
  ELSE [c EXCEPT !.game.state.isMoving = TRUE,
                 !.game.state.facing = direction,
                 !.game.movementCooldown = TRUE,
                 !.sent = Append(@, [data |-> [task |-> MESSAGE_GAME_UPDATE,
                                               direction |-> direction],
                                     at |-> now]),
                 !.timeouts = Append(@, now + movementCooldownDelay)]

\* move that does not test the cooldown
move_withoutCooldown(c, direction) ==
  IF ~c.game.isRunning
  THEN c
  ELSE [c EXCEPT !.game.state.isMoving = TRUE,
                 !.game.state.facing = direction,
                 !.game.movementCooldown = TRUE,
                 !.sent = Append(@, [data |-> [task |-> MESSAGE_GAME_UPDATE,
                                               direction |-> direction],
                                     at |-> now]),
                 !.timeouts = Append(@, now + movementCooldownDelay)]

\* move that puts the player on the cell of the direction at once
move_optimisticPosition(c, direction) ==
  IF c.game.movementCooldown \/ ~c.game.isRunning
  THEN c
  ELSE [c EXCEPT !.game.state.isMoving = TRUE,
                 !.game.state.facing = direction,
                 !.game.state.position = newPos(@, direction),
                 !.game.movementCooldown = TRUE,
                 !.sent = Append(@, [data |-> [task |-> MESSAGE_GAME_UPDATE,
                                               direction |-> direction],
                                     at |-> now]),
                 !.timeouts = Append(@, now + movementCooldownDelay)]

\* move
move(c, direction) ==
  IF c.game.movementCooldown \/ ~c.game.isRunning
  THEN c
  ELSE [c EXCEPT !.game.state.isMoving = TRUE,
                 !.game.state.facing = direction,
                 !.game.movementCooldown = TRUE,
                 !.sent = Append(@, [data |-> [task |-> MESSAGE_GAME_UPDATE,
                                               direction |-> direction],
                                     at |-> now]),
                 !.timeouts = Append(@, now + movementCooldownDelay)]

sendDirection(c, direction) == move(c, direction)

\* the keys of the keyboard events
Keys == {"ArrowLeft", "ArrowRight", "ArrowUp", "ArrowDown",
         "a", "d", "w", "s", "A", "D", "W", "S", "x"}

\* keyMap of Game.handleKeyDown
keyMap ==
  [k \in {"ArrowLeft", "ArrowRight", "ArrowUp", "ArrowDown", "a", "d", "w", "s"} |->
     CASE k \in {"ArrowLeft", "a"} -> "left"
       [] k \in {"ArrowRight", "d"} -> "right"
       [] k \in {"ArrowUp", "w"} -> "up"
       [] k \in {"ArrowDown", "s"} -> "down"]

\* Game.handleKeyDown
handleKeyDown(c, key) ==
  IF ~c.game.isRunning THEN c
  ELSE IF key \in DOMAIN keyMap THEN move(c, keyMap[key])
  ELSE c

\* String.toLowerCase on the keys
toLowerCase ==
  [k \in Keys |->
     CASE k = "ArrowLeft" -> "arrowleft"
       [] k = "ArrowRight" -> "arrowright"
       [] k = "ArrowUp" -> "arrowup"
       [] k = "ArrowDown" -> "arrowdown"
       [] k = "A" -> "a"
       [] k = "D" -> "d"
       [] k = "W" -> "w"
       [] k = "S" -> "s"
       [] OTHER -> k]

\* handleKeyDown of the page
pageHandleKeyDown(c, key) ==
  IF ~gameStarted THEN c
  ELSE LET k == toLowerCase[key]
       IN CASE k \in {"arrowleft", "a"} -> move(c, "left")
            [] k \in {"arrowright", "d"} -> move(c, "right")
            [] k \in {"arrowup", "w"} -> move(c, "up")
            [] k \in {"arrowdown", "s"} -> move(c, "down")
            [] OTHER -> c

\* initializeClouds
initializeClouds(c) == [c EXCEPT !.game.clouds = newClouds(c.canvas)]

\* updateClouds that pushes the new clouds and keeps the ones that left
updateClouds_pushesNew(c) ==
  IF ~c.game.animationSettings.enableClouds THEN c
  ELSE LET moved == [i \in 1..Len(c.game.clouds) |->
                       [c.game.clouds[i] EXCEPT !.x = @ + c.game.clouds[i].speed]]
           left == SelectSeq(moved,
                             LAMBDA cloud : cloud.x > c.canvas.width * 1000 + cloud.size)
       IN [c EXCEPT
             !.game.cloudOffset = @ + 200,
             !.game.clouds =
                moved \o [i \in 1..Len(left) |-> createCloud(i - 1, TRUE, c.canvas)]]

\* updateClouds
updateClouds(c) ==
  IF ~c.game.animationSettings.enableClouds THEN c
  ELSE [c EXCEPT
          !.game.cloudOffset = @ + 200,
          !.game.clouds =
             [i \in 1..Len(c.game.clouds) |->
                LET cloud == [c.game.clouds[i] EXCEPT !.x = @ + c.game.clouds[i].speed]
                IN IF cloud.x > c.canvas.width * 1000 + cloud.size
                   THEN createCloud(i - 1, TRUE, c.canvas)
                   ELSE cloud]]

\* update that refreshes the activity whether the player is moving or not
update_alwaysActive(c, delta) ==
  LET c1 == [c EXCEPT !.game.state.lastActivityTime = now,
                      !.game.state.idleState = ACTIVE]
  IN IF now - c1.game.lastAnimationUpdate > 16
     THEN [updateClouds(c1) EXCEPT
             !.game.waterOffset =
                IF c1.game.animationSettings.enableWaves
                THEN (now * 1000) % 6283185 ELSE @,
             !.game.riverOffset =
                IF c1.game.animationSettings.enableRiver
                THEN (now * 1250) % 6283185 ELSE @,
             !.game.lastAnimationUpdate = now]
     ELSE c1

\* 2 * Math.PI, in millionths
TwoPi == 6283185

\* update; performance.now() / 1000 and / 800 are 1000 and 1250 millionths
\* for each millisecond
update(c, delta) ==
  LET c1 == IF c.game.state.isMoving
            THEN [c EXCEPT !.game.state.lastActivityTime = now,
                           !.game.state.idleState = ACTIVE]
            ELSE c
  IN IF now - c1.game.lastAnimationUpdate > 16
     THEN [updateClouds(c1) EXCEPT
             !.game.waterOffset =
                IF c1.game.animationSettings.enableWaves
                THEN (now * 1000) % TwoPi ELSE @,
             !.game.riverOffset =
                IF c1.game.animationSettings.enableRiver
                THEN (now * 1250) % TwoPi ELSE @,
             !.game.lastAnimationUpdate = now]
     ELSE c1

\* the sequences of a sequence, one after the other
RECURSIVE concat(_)
concat(seqs) == IF seqs = <<>> THEN <<>> ELSE Head(seqs) \o concat(Tail(seqs))

\* a drawing call at the pixel (x, y), in thousandths
call(op, x, y, arg) == [op |-> op, x |-> x, y |-> y, arg |-> arg]

\* the second pass that makes no exception of the player's cell
terrainDetail_everyCell(params, row, col) ==
  LET terrain == params.terrainMap[row + 1][col + 1]
      x == col * params.tileSize
      y == row * params.tileSize
  IN CASE terrain = "F" -> <<call("drawTrees", x, y, <<>>)>>
       [] terrain = "M" -> <<call("drawMountains", x, y, <<>>)>>
       [] terrain = "W" ->
            IF params.animationSettings.enableWaves
            THEN <<call("drawWaves", x, y, <<params.waterOffset>>)>>
            ELSE <<call("fillRect", x, y, <<"W">>)>>
       [] terrain = "R" ->
            IF params.animationSettings.enableRiver
            THEN <<call("drawRiver", x, y, <<params.riverOffset>>)>>
            ELSE <<call("fillRect", x, y, <<"R">>)>>
       [] OTHER -> <<>>

\* the second pass of drawPixel on the cell (col, row)
terrainDetail(params, row, col) ==
  LET terrain == params.terrainMap[row + 1][col + 1]
      x == col * params.tileSize
      y == row * params.tileSize
  IN IF row = params.pixelPos.y /\ col = params.pixelPos.x THEN <<>>
     ELSE CASE terrain = "F" -> <<call("drawTrees", x, y, <<>>)>>
            [] terrain = "M" -> <<call("drawMountains", x, y, <<>>)>>
            [] terrain = "W" ->
                 IF params.animationSettings.enableWaves
                 THEN <<call("drawWaves", x, y, <<params.waterOffset>>)>>
                 ELSE <<call("fillRect", x, y, <<"W">>)>>
            [] terrain = "R" ->
                 IF params.animationSettings.enableRiver
                 THEN <<call("drawRiver", x, y, <<params.riverOffset>>)>>
                 ELSE <<call("fillRect", x, y, <<"R">>)>>
            [] OTHER -> <<>>

\* drawPixel: the drawing calls it makes, in order; a fillRect is given the
\* terrain whose colour it fills with
drawPixel(params) ==
  LET map == params.terrainMap
      pos == params.pixelPos
      basePass ==
        concat([row \in 1..Len(map) |->
                  [col \in 1..Len(map[row]) |->
                     call("fillRect", (col - 1) * params.tileSize,
                          (row - 1) * params.tileSize, <<map[row][col]>>)]])
      detailPass ==
        concat([row \in 1..Len(map) |->
                  concat([col \in 1..Len(map[row]) |->
                            terrainDetail(params, row - 1, col - 1)])])
      character ==
        <<call("drawCharacter", pos.x * params.tileSize,
               pos.y * params.tileSize - params.tileSize \div 8,
               <<params.facing, params.isMoving>>)>>
      playerTerrain ==
        IF pos.y + 1 \in 1..Len(map) /\ pos.x + 1 \in 1..Len(map[pos.y + 1])
        THEN map[pos.y + 1][pos.x + 1] ELSE "undefined"
      playerDetail ==
        IF playerTerrain = "F"
        THEN <<call("drawTrees", pos.x * params.tileSize,
                    pos.y * params.tileSize, <<>>)>>
        ELSE <<>>
      cloudPass ==
        IF params.animationSettings.enableClouds
        THEN [i \in 1..Len(params.clouds) |->
                call("drawCloud", params.clouds[i].x, params.clouds[i].y,
                     <<params.clouds[i].size>>)]
        ELSE <<>>
  IN <<call("clearRect", 0, 0, <<>>)>> \o basePass \o detailPass
       \o character \o playerDetail \o cloudPass

\* render
render(c) ==
  LET settings == c.game.animationSettings
      params ==
        [terrainMap |-> c.game.terrainMap,
         pixelPos |-> c.game.state.position,
         facing |-> c.game.state.facing,
         isMoving |-> c.game.state.isMoving,
         animationSettings |-> settings,
         waterOffset |-> IF settings.enableWaves THEN c.game.waterOffset ELSE 0,
         riverOffset |-> IF settings.enableRiver THEN c.game.riverOffset ELSE 0,
         clouds |-> IF settings.enableClouds THEN c.game.clouds ELSE <<>>,
         cloudOffset |-> c.game.cloudOffset,
         tileSize |-> 40000]
  IN [c EXCEPT !.drawn = TRUE,
               !.canvas.ops = <<call("clearRect", 0, 0, <<>>)>> \o drawPixel(params)]

\* handleResize, given the rectangle of the canvas and the pixel ratio of
\* the device; assigning the width clears the canvas
handleResize(c, rect, devicePixelRatio) ==
  initializeClouds([c EXCEPT !.canvas = [width |-> rect.width * devicePixelRatio,
                                         height |-> rect.height * devicePixelRatio,
                                         ops |-> <<>>]])

\* settings[k] is there and true
enabled(settings, k) == k \in DOMAIN settings /\ settings[k]

\* setAnimationSettings
setAnimationSettings(c, settings) ==
  LET c1 == [c EXCEPT !.game.animationSettings = spread(@, settings)]
      c2 == IF ~enabled(settings, "enableClouds")
            THEN initializeClouds([c1 EXCEPT !.game.cloudOffset = 0])
            ELSE c1
      c3 == IF ~enabled(settings, "enableWaves")
            THEN [c2 EXCEPT !.game.waterOffset = 0]
            ELSE c2
  IN IF ~enabled(settings, "enableRiver")
     THEN [c3 EXCEPT !.game.riverOffset = 0]
     ELSE c3

\* gameLoop
gameLoop(c, timestamp) ==
  IF ~c.game.isRunning THEN c
  ELSE LET delta == timestamp - c.game.lastFrameTime
           c1 == update(c, delta)
           c2 == IF delta * c1.game.frameThrottle[2] >= c1.game.frameThrottle[1]
                 THEN render([c1 EXCEPT !.game.lastFrameTime = timestamp])
                 ELSE c1
       IN [c2 EXCEPT !.game.animationFrame = c.nextFrameId,
                     !.animationFrames = @ \cup {[id |-> c.nextFrameId,
                                                  due |-> now + refreshPeriod]},
                     !.nextFrameId = @ + 1]

\* start
start(c) ==
  gameLoop([c EXCEPT !.game.isRunning = TRUE,
                     !.sent = Append(@, [data |-> [task |-> MESSAGE_START],
                                         at |-> now])],
           0)

\* stop that also clears the timeouts of move
stop_clearsTimeouts(c) ==
  [c EXCEPT !.game.isRunning = FALSE,
            !.timeouts = <<>>,
            !.animationFrames =
               IF c.game.animationFrame # 0
               THEN {f \in @ : f.id # c.game.animationFrame}
               ELSE @]

\* stop
stop(c) ==
  [c EXCEPT !.game.isRunning = FALSE,
            !.animationFrames =
               IF c.game.animationFrame # 0
               THEN {f \in @ : f.id # c.game.animationFrame}
               ELSE @]

\* destroy
destroy(c) ==
  [stop(c) EXCEPT
     !.listeners =
        (@ \ {[type |-> "keydown", fn |-> bound("handleKeyDown", "destroy")]})
           \ {[type |-> "resize", fn |-> bound("handleResize", "destroy")]},
     !.game.worker = "terminated"]

\* the callback of the setTimeout of move
cooldownCallback(c) ==
  [c EXCEPT !.game.state.isMoving = FALSE,
            !.game.movementCooldown = FALSE]

(***************************************************************************)
(* The steps of the controller                                             *)
(***************************************************************************)
\* the context c is what the step leaves
Leaves(c) ==
  /\ game' = c.game
  /\ timeouts' = c.timeouts
  /\ animationFrames' = c.animationFrames
  /\ nextFrameId' = c.nextFrameId
  /\ sent' = c.sent
  /\ dispatched' = c.dispatched
  /\ drawn' = c.drawn
  /\ canvas' = c.canvas
  /\ listeners' = c.listeners
  /\ inflight' = c.inflight

workerVars == <<gameState, idleCheckInterval, intervals, nextTimerId, tasks,
                posted, ncmds>>

\* game.start() on the Game the page has constructed and started
GameStart ==
  /\ Leaves(start(context))
  /\ gameStarted' = TRUE
  /\ ninputs' = ninputs + 1
  /\ lastInput' = <<"start">>
  /\ UNCHANGED <<now, random, workerVars>>

GameStop ==
  /\ Leaves(stop(context))
  /\ ninputs' = ninputs + 1
  /\ lastInput' = <<"stop">>
  /\ UNCHANGED <<now, random, gameStarted, workerVars>>

GameDestroy ==
  /\ Leaves(destroy(context))
  /\ ninputs' = ninputs + 1
  /\ lastInput' = <<"destroy">>
  /\ UNCHANGED <<now, random, gameStarted, workerVars>>

\* a keydown event on the window: the listener of the page, then the
\* listener of the Game
KeyDown(key) ==
  /\ LET c == pageHandleKeyDown(context, key)
     IN Leaves(IF \E l \in listeners :
                     l.type = "keydown" /\ l.fn.method = "handleKeyDown"
               THEN handleKeyDown(c, key)
               ELSE c)
  /\ ninputs' = ninputs + 1
  /\ lastInput' = <<"keydown", key>>
  /\ UNCHANGED <<now, random, gameStarted, workerVars>>

\* an on-screen button
Button(direction) ==
  /\ Leaves(sendDirection(context, direction))
  /\ ninputs' = ninputs + 1
  /\ lastInput' = <<"button", direction>>
  /\ UNCHANGED <<now, random, gameStarted, workerVars>>

\* an event of the worker is delivered
WorkerMessage(e) ==
  /\ game.worker = "running"
  /\ Leaves(workerOnmessage(context, e))
  /\ ninputs' = ninputs + 1
  /\ lastInput' = <<"message", e.status>>
  /\ UNCHANGED <<now, random, gameStarted, workerVars>>

\* a resize event on the window
Resize(rect, devicePixelRatio) ==
  /\ Leaves(IF \E l \in listeners :
                  l.type = "resize" /\ l.fn.method = "handleResize"
            THEN handleResize(context, rect, devicePixelRatio)
            ELSE context)
  /\ ninputs' = ninputs + 1
  /\ lastInput' = <<"resize">>
  /\ UNCHANGED <<now, random, gameStarted, workerVars>>

\* the animation checkboxes of the page, or a caller of the method
SetAnimationSettings(settings) ==
  /\ Leaves(setAnimationSettings(context, settings))
  /\ ninputs' = ninputs + 1
  /\ lastInput' = <<"setAnimationSettings">>
  /\ UNCHANGED <<now, random, gameStarted, workerVars>>

\* Math.random goes on to other values
Reseed(stream) ==
  /\ stream # random
  /\ random' = stream
  /\ UNCHANGED <<now, workerVars, game, gameStarted, timeouts, animationFrames,
                 nextFrameId, sent, dispatched, drawn, ninputs, lastInput,
                 canvas, listeners, inflight>>

\* the oldest timeout of move fires
CooldownTimeout ==
  /\ timeouts # <<>>
  /\ Head(timeouts) = now
  /\ Leaves(cooldownCallback([context EXCEPT !.timeouts = Tail(@)]))
  /\ UNCHANGED <<now, random, gameStarted, ninputs, lastInput, workerVars>>

\* the frame callback f runs
Frame(f) ==
  /\ f \in animationFrames
  /\ f.due = now
  /\ Leaves(gameLoop([context EXCEPT !.animationFrames = @ \ {f}], now))
  /\ UNCHANGED <<now, random, gameStarted, ninputs, lastInput, workerVars>>

\* the Worker just loaded and the Game just constructed and started: what the
\* click on the Start button of the page leaves of the two
Started ==
  /\ gameState = [InitialGameState EXCEPT !.lastActivityTime = now]
  /\ idleCheckInterval = 0
  /\ intervals = {}
  /\ nextTimerId = 1
  /\ tasks = <<>>
  /\ posted = <<>>
  /\ ncmds = 0
  /\ LET c0 == [game |-> [InitialGame EXCEPT !.state.lastActivityTime = now],
                timeouts |-> <<>>, animationFrames |-> {},
                nextFrameId |-> 1, sent |-> <<>>, dispatched |-> <<>>,
                drawn |-> FALSE, canvas |-> InitialCanvas,
                listeners |-> setupEventListeners]
         c == start(c0)
     IN /\ game = c.game
        /\ timeouts = c.timeouts
        /\ animationFrames = c.animationFrames
        /\ nextFrameId = c.nextFrameId
        /\ sent = c.sent
        /\ dispatched = c.dispatched
        /\ drawn = c.drawn
        /\ canvas = c.canvas
        /\ listeners = c.listeners
  /\ inflight = <<>>
  /\ gameStarted = TRUE
  /\ ninputs = 0
  /\ lastInput = <<"start">>

(***************************************************************************)
(* CtrlSpec: the controller alone.  The page constructs the Worker and the *)
(* Game and starts the Game at the click on its button: that is the        *)
(* initial state.  Calls, key presses, buttons and events of the worker    *)
(* arrive at a few instants from then on; the events are those the worker  *)
(* has posted for the messages of the controller.  The counters of the     *)
(* page's debug panel are not part of the state.                           *)
(***************************************************************************)
\* the instants of the click on the Start button
CtrlStartTimes == {0, 100}
\* the keys pressed
CtrlKeys == {"ArrowUp", "A"}
\* the directions of the on-screen buttons pressed
ButtonDirections == {"right"}
\* the instants at which calls, inputs and events arrive
CtrlArrivalTimes == {0, 100, 200}

Elements(seq) == {seq[j] : j \in 1..Len(seq)}

\* self.onmessage on the gameState gs at the instant t: the gameState it
\* leaves and the events it posts
reply(gs, data, t) ==
  LET gs0 == [gs EXCEPT !.lastActivityTime = t]
  IN IF data.task = MESSAGE_START
     THEN [gameState |-> gs0, posted |-> handleGameStart(gs0, defaultTime).posted]
     ELSE IF data.task = MESSAGE_GAME_UPDATE
     THEN IF "direction" \in DOMAIN data
          THEN LET r == handleMovement(gs0, data.direction)
               IN IF r.thrown # <<>>
                  THEN [gameState |-> [r.gameState EXCEPT !.lastActivityTime = t],
                        posted |-> <<errorEvent(r.thrown)>>]
                  ELSE [gameState |-> [r.gameState EXCEPT !.lastActivityTime = t],
                        posted |-> [j \in 1..Len(r.posted) |->
                                     [r.posted[j] EXCEPT
                                        !.gameState.lastActivityTime = t]]]
          ELSE [gameState |-> gs0, posted |-> <<>>]
     ELSE [gameState |-> gs0,
           posted |-> <<errorEvent(<<"Unknown task: ", data.task>>)>>]

\* the callback of the idle timer on the gameState gs at the instant t
tick(gs, t) ==
  LET new == newIdleState(t - gs.lastActivityTime)
      gs1 == [gs EXCEPT !.idleState = new]
  IN IF new # gs.idleState
     THEN [gameState |-> gs1,
           posted |-> << [status |-> STATUS_PROCESSING,
                          gameState |-> gs1,
                          message |-> <<"State changed to ", new>>] >>]
     ELSE [gameState |-> gs, posted |-> <<>>]

\* the worker w, its gameState, the instant its idle timer is due (0: no
\* timer) and the events it has posted, after the ticks of its idle timer
\* up to the instant t
RECURSIVE ticked(_, _)
ticked(w, t) ==
  IF w.due = 0 \/ w.due > t THEN w
  ELSE LET r == tick(w.gameState, w.due)
       IN ticked([gameState |-> r.gameState,
                  due |-> w.due + idleCheckPeriod,
                  posted |-> w.posted \cup Elements(r.posted)], t)

\* the worker after the first j messages of the Game, each received at the
\* instant it was posted; the worker was loaded when the Game was constructed
RECURSIVE workerAfter(_)
workerAfter(j) ==
  IF j = 0 THEN [gameState |-> gameState, due |-> 0, posted |-> {}]
  ELSE LET w == ticked(workerAfter(j - 1), sent[j].at)
           r == reply(w.gameState, sent[j].data, sent[j].at)
       IN [gameState |-> r.gameState,
           due |-> IF sent[j].data.task = MESSAGE_START
                   THEN sent[j].at + idleCheckPeriod
                   ELSE w.due,
           posted |-> w.posted \cup Elements(r.posted)]

\* the events the tasks of the worker have posted: the task of a Start
\* posts the step k after k times 100 ms, and the end with the last step
progressEvents ==
  UNION {{[status |-> STATUS_PROCESSING, step |-> k, total |-> total] :
            k \in {k \in 1..total : sent[j].at + k * defaultTime <= now}}
           \cup (IF sent[j].at + total * defaultTime <= now
                 THEN {[status |-> STATUS_FINISHED,
                        result |-> defaultTime * total,
                        message |-> <<"Task finished with time = ",
                                      ToString(defaultTime)>>]}
                 ELSE {}) :
         j \in {j \in 1..Len(sent) : sent[j].data.task = MESSAGE_START}}

\* the events the worker has posted up to now: its answers to the messages
\* of the Game, the changes of state of its idle timer and the progress of
\* its tasks.  The Game may be given any of them.
WorkerEvents == ticked(workerAfter(Len(sent)), now).posted \cup progressEvents

CtrlArrival == ninputs < MaxCtrlInputs /\ now \in CtrlArrivalTimes

CtrlAdvance ==
  \E t \in dueTimes \cup CtrlArrivalTimes : t > now /\ Advance(t - now, MaxCtrlTime)

CtrlNext ==
  \/ CtrlArrival /\ GameStart
  \/ CtrlArrival /\ GameStop
  \/ CtrlArrival /\ GameDestroy
  \/ \E key \in CtrlKeys : CtrlArrival /\ KeyDown(key)
  \/ \E direction \in ButtonDirections : CtrlArrival /\ Button(direction)
  \/ \E e \in WorkerEvents : CtrlArrival /\ WorkerMessage(e)
  \/ CooldownTimeout
  \/ \E f \in animationFrames : Frame(f)
  \/ CtrlAdvance

CtrlInit == now \in CtrlStartTimes /\ random = RandomLow /\ Started

CtrlSpec == CtrlInit /\ [][CtrlNext]_vars

(***************************************************************************)
(* CooldownSpec: the controller with its timers, from the click on the     *)
(* Start button on.  Calls, key presses and events arrive at a few         *)
(* instants; time passes, and a timeout or a frame callback that is due    *)
(* runs.  The horizon leaves every cooldown the time to end.  The last     *)
(* conjunct of the specification is WF_vars(Frames) with the enabling      *)
(* condition of Frames written out.                                        *)
(***************************************************************************)
\* the instants of the click on the Start button
CooldownStartTimes == {0, 100}
\* the keys pressed
CooldownKeys == {"ArrowUp"}
\* the instants at which calls, inputs and events arrive
CooldownArrivalTimes == {0, 100, 200}

CooldownArrival == ninputs < MaxCooldownInputs /\ now \in CooldownArrivalTimes

CooldownAdvance ==
  \E t \in dueTimes \cup CooldownArrivalTimes :
    t > now /\ Advance(t - now, MaxCooldownTime)

\* a frame callback that is due runs
Frames == \E f \in animationFrames : Frame(f)

\* a frame callback is due: Frames is enabled, and it changes animationFrames
FramesDue == \E f \in animationFrames : f.due = now

CooldownNext ==
  \/ CooldownArrival /\ GameStart
  \/ CooldownArrival /\ GameStop
  \/ \E key \in CooldownKeys : CooldownArrival /\ KeyDown(key)
  \/ \E e \in WorkerEvents : CooldownArrival /\ WorkerMessage(e)
  \/ CooldownTimeout
  \/ Frames
  \/ CooldownAdvance

CooldownInit == now \in CooldownStartTimes /\ random = RandomLow /\ Started

CooldownSpec ==
  /\ CooldownInit
  /\ [][CooldownNext]_vars
  /\ WF_vars(CooldownTimeout)
  /\ WF_vars(CooldownAdvance)
  /\ []<>(~FramesDue) \/ []<><<Frames>>_vars

(***************************************************************************)
(* SystemSpec: the controller and the worker joined by the channel.  The   *)
(* messages the Game posts reach the worker in the order of sent, the      *)
(* events the worker posts reach the Game in the order of inflight, each   *)
(* at any time from its posting to MaxLatency later.  The page constructs  *)
(* the Worker and the Game and starts the Game in one step, once: that is  *)
(* the initial state.  Calls and key presses arrive at a few instants; the *)
(* timers of both sides run.  The counters of the page's debug panel are   *)
(* not part of the state.                                                  *)
(***************************************************************************)
\* the keys pressed
SystemKeys == {"ArrowUp", "ArrowLeft"}
\* the instants at which calls and key presses arrive
SystemArrivalTimes == {0, 290, 500}

\* the messages of the Game the worker has not received yet
commands == SubSeq(sent, ncmds + 1, Len(sent))

\* the events with the time of their posting, as in sent
stamped(events) == [j \in 1..Len(events) |-> [data |-> events[j], at |-> now]]

\* the worker receives the oldest message on its way and runs onmessage to
\* its end; the events it posts are on their way to the Game
SystemReceive ==
  /\ commands # <<>>
  /\ LET r == onmessage(Head(commands).data)
     IN /\ gameState' = r.gameState
        /\ idleCheckInterval' = r.idleCheckInterval
        /\ intervals' = r.intervals
        /\ nextTimerId' = r.nextTimerId
        /\ tasks' = r.tasks
        /\ posted' = r.posted
        /\ inflight' = inflight \o stamped(r.posted)
  /\ ncmds' = ncmds + 1
  /\ UNCHANGED <<now, game, gameStarted, timeouts, animationFrames, nextFrameId, sent,
                 dispatched, drawn, ninputs, lastInput, canvas, listeners, random>>

\* the interval timer t of the worker fires
SystemIdleCheck(t) ==
  /\ t \in intervals
  /\ t.due = now
  /\ LET r == idleCheckCallback
     IN /\ gameState' = r.gameState
        /\ posted' = r.posted
        /\ inflight' = inflight \o stamped(r.posted)
  /\ intervals' = (intervals \ {t}) \cup {[id |-> t.id, due |-> now + idleCheckPeriod]}
  /\ UNCHANGED <<now, idleCheckInterval, nextTimerId, tasks, ncmds>>
  /\ UNCHANGED <<game, gameStarted, timeouts, animationFrames, nextFrameId, sent,
                 dispatched, drawn, ninputs, lastInput, canvas, listeners, random>>

\* the timeout of the suspended task k of the worker fires
SystemProgressStep(k) ==
  /\ k \in 1..Len(tasks)
  /\ tasks[k].due = now
  /\ LET r == progressStep(k)
     IN /\ tasks' = r.tasks
        /\ posted' = r.posted
        /\ inflight' = inflight \o stamped(r.posted)
  /\ UNCHANGED <<now, gameState, idleCheckInterval, intervals, nextTimerId, ncmds>>
  /\ UNCHANGED <<game, gameStarted, timeouts, animationFrames, nextFrameId, sent,
                 dispatched, drawn, ninputs, lastInput, canvas, listeners, random>>

\* the oldest event on its way reaches the Game: worker.onmessage runs
SystemDeliver ==
  /\ inflight # <<>>
  /\ game.worker = "running"
  /\ Leaves(workerOnmessage([context EXCEPT !.inflight = Tail(@)], Head(inflight).data))
  /\ lastInput' = <<"message", Head(inflight).data.status>>
  /\ UNCHANGED <<now, random, gameStarted, ninputs, workerVars>>

\* the worker loaded, the Game constructed and started at the same instant
SystemInit ==
  /\ now = 0
  /\ gameState = [InitialGameState EXCEPT !.lastActivityTime = now]
  /\ idleCheckInterval = 0
  /\ intervals = {}
  /\ nextTimerId = 1
  /\ tasks = <<>>
  /\ posted = <<>>
  /\ ncmds = 0
  /\ random = RandomLow
  /\ LET c0 == [game |-> [InitialGame EXCEPT !.state.lastActivityTime = now],
                timeouts |-> <<>>, animationFrames |-> {},
                nextFrameId |-> 1, sent |-> <<>>, dispatched |-> <<>>,
                drawn |-> FALSE, canvas |-> InitialCanvas,
                listeners |-> setupEventListeners]
         c == start(c0)
     IN /\ game = c.game
        /\ timeouts = c.timeouts
        /\ animationFrames = c.animationFrames
        /\ nextFrameId = c.nextFrameId
        /\ sent = c.sent
        /\ dispatched = c.dispatched
        /\ drawn = c.drawn
        /\ canvas = c.canvas
        /\ listeners = c.listeners
  /\ inflight = <<>>
  /\ gameStarted = TRUE
  /\ ninputs = 0
  /\ lastInput = <<"start">>

SystemArrival == ninputs < MaxSystemInputs /\ now \in SystemArrivalTimes

\* time passes, and no message is on its way for longer than MaxLatency
SystemAdvance ==
  \E t \in dueTimes \cup SystemArrivalTimes :
    /\ t > now
    /\ \A j \in 1..Len(commands) : t <= commands[j].at + MaxLatency
    /\ \A j \in 1..Len(inflight) : t <= inflight[j].at + MaxLatency
    /\ Advance(t - now, MaxSystemTime)

SystemNext ==
  \/ SystemArrival /\ GameStop
  \/ \E key \in SystemKeys : SystemArrival /\ KeyDown(key)
  \/ SystemReceive
  \/ \E t \in intervals : SystemIdleCheck(t)
  \/ \E k \in 1..Len(tasks) : SystemProgressStep(k)
  \/ SystemDeliver
  \/ CooldownTimeout
  \/ Frames
  \/ SystemAdvance

SystemSpec == SystemInit /\ [][SystemNext]_vars

(***************************************************************************)
(* AnimSpec: the animation of the controller.  The page constructs the     *)
(* Game and starts it, some seconds after the time origin and with either  *)
(* stream of random numbers; calls, buttons, resizes, changes of the       *)
(* animation settings and events arrive at a few instants and the frame    *)
(* loop runs between them.                                                 *)
(***************************************************************************)
\* the instants of the construction
AnimStartTimes == {6260}
\* the instants at which calls, inputs and events arrive
AnimArrivalTimes == {6260, 6300}
\* the arguments of setAnimationSettings: the whole objects of the page's
\* checkboxes and objects that name some of the settings
AnimSettings ==
  {[enableClouds |-> TRUE, enableWaves |-> TRUE, enableRiver |-> TRUE],
   [enableClouds |-> FALSE, enableWaves |-> FALSE, enableRiver |-> FALSE],
   [enableClouds |-> TRUE]}
\* the rectangles of the canvas element at a resize
AnimRects == {[width |-> 400, height |-> 300]}
\* the pixel ratios of the device
AnimPixelRatios == {1}

\* the Worker and the Game constructed and the Game started, as startGame
\* of the page does in one step
AnimInit ==
  /\ now \in AnimStartTimes
  /\ gameState = [InitialGameState EXCEPT !.lastActivityTime = now]
  /\ idleCheckInterval = 0
  /\ intervals = {}
  /\ nextTimerId = 1
  /\ tasks = <<>>
  /\ posted = <<>>
  /\ ncmds = 0
  /\ random \in RandomStreams
  /\ LET c0 == [game |-> [InitialGame EXCEPT !.state.lastActivityTime = now],
                timeouts |-> <<>>, animationFrames |-> {},
                nextFrameId |-> 1, sent |-> <<>>, dispatched |-> <<>>,
                drawn |-> FALSE, canvas |-> InitialCanvas,
                listeners |-> setupEventListeners]
         c == start(c0)
     IN /\ game = c.game
        /\ timeouts = c.timeouts
        /\ animationFrames = c.animationFrames
        /\ nextFrameId = c.nextFrameId
        /\ sent = c.sent
        /\ dispatched = c.dispatched
        /\ drawn = c.drawn
        /\ canvas = c.canvas
        /\ listeners = c.listeners
  /\ inflight = <<>>
  /\ gameStarted = TRUE
  /\ ninputs = 0
  /\ lastInput = <<"start">>

AnimArrival == ninputs < MaxAnimInputs /\ now \in AnimArrivalTimes

AnimAdvance ==
  \E t \in dueTimes \cup AnimArrivalTimes : t > now /\ Advance(t - now, MaxAnimTime)

AnimNext ==
  \/ AnimArrival /\ GameStart
  \/ AnimArrival /\ GameStop
  \/ \E direction \in ButtonDirections : AnimArrival /\ Button(direction)
  \/ \E settings \in AnimSettings : AnimArrival /\ SetAnimationSettings(settings)
  \/ \E rect \in AnimRects, ratio \in AnimPixelRatios :
       AnimArrival /\ Resize(rect, ratio)
  \/ \E e \in WorkerEvents : AnimArrival /\ WorkerMessage(e)
  \/ \E stream \in RandomStreams : Reseed(stream)
  \/ CooldownTimeout
  \/ \E f \in animationFrames : Frame(f)
  \/ AnimAdvance

AnimSpec == AnimInit /\ [][AnimNext]_vars

(***************************************************************************)
(* Spec: any commands at any time, over a short horizon                    *)
(***************************************************************************)
Next ==
  \/ ncmds < MaxCmds /\ Start
  \/ \E time \in CommandTimes : ncmds < MaxCmds /\ StartWithTime(time)
  \/ \E direction \in Direction : ncmds < MaxCmds /\ Move(direction)
  \/ ncmds < MaxCmds /\ UpdateWithoutDirection
  \/ \E task \in UnknownTasks : ncmds < MaxCmds /\ UnknownTask(task)
  \/ \E t \in intervals : IdleCheck(t)
  \/ \E k \in 1..Len(tasks) : ProgressStep(k)
  \/ \E dt \in ClockSteps : Advance(dt, MaxTime)

Spec == Init /\ [][Next]_vars

(***************************************************************************)
(* IdleSpec: one Start when the worker is loaded, then commands at any     *)
(* time over a horizon that reaches past the SLEEPING threshold            *)
(***************************************************************************)
\* the directions of the Move commands of IdleSpec
IdleDirections == {"left"}

IdleNext ==
  \/ now = 0 /\ ncmds = 0 /\ Start
  \/ \E direction \in IdleDirections :
       ncmds >= 1 /\ ncmds < 1 + MaxIdleCmds /\ Move(direction)
  \/ \E task \in UnknownTasks :
       ncmds >= 1 /\ ncmds < 1 + MaxIdleCmds /\ UnknownTask(task)
  \/ \E t \in intervals : IdleCheck(t)
  \/ \E k \in 1..Len(tasks) : ProgressStep(k)
  \/ \E dt \in ClockSteps : ncmds >= 1 /\ Advance(dt, MaxIdleTime)

IdleSpec == Init /\ [][IdleNext]_vars

(***************************************************************************)
(* ProgressSpec: Start commands with the default delay and with a delay of *)
(* 10 ms, and Move commands, delivered at a few instants; time runs from   *)
(* one timer to the next until every progress task has finished.  Timers   *)
(* that are due fire and time passes: both are weakly fair.                *)
(***************************************************************************)
\* the delays of the Start commands that carry one
ProgressTimes == {10}
\* the directions of the Move commands of ProgressSpec
ProgressDirections == {"up"}
\* the instants at which commands are delivered
ArrivalTimes == {0, 50, 1000}

ProgressArrival == ncmds < MaxProgressCmds /\ now \in ArrivalTimes

\* time passes to the next timer or to the next instant of delivery
ProgressAdvance ==
  \E t \in dueTimes \cup ArrivalTimes :
    /\ t > now
    /\ tasks # <<>> \/ \E a \in ArrivalTimes : a >= t
    /\ Advance(t - now, t)

ProgressNext ==
  \/ ProgressArrival /\ Start
  \/ \E time \in ProgressTimes : ProgressArrival /\ StartWithTime(time)
  \/ \E direction \in ProgressDirections : ProgressArrival /\ Move(direction)
  \/ \E t \in intervals : IdleCheck(t)
  \/ \E k \in 1..Len(tasks) : ProgressStep(k)
  \/ ProgressAdvance

ProgressSpec ==
  /\ Init
  /\ [][ProgressNext]_vars
  /\ WF_vars(\E t \in intervals : IdleCheck(t))
  /\ WF_vars(\E k \in 1..Len(tasks) : ProgressStep(k))
  /\ WF_vars(ProgressAdvance)

(***************************************************************************)
(* TableSpec: the movement table.  The current position is drawn from all  *)
(* the cells of the map, the border included, and Move commands of the     *)
(* four directions are applied to it.                                      *)
(***************************************************************************)
Cells == {[x |-> x, y |-> y] : x \in 0..(Len(terrainMap[1]) - 1),
                               y \in 0..(Len(terrainMap) - 1)}

TableInit ==
  /\ now = 0
  /\ \E p \in Cells :
       gameState = [InitialGameState EXCEPT !.position = p,
                                            !.terrain = terrainAt(p),
                                            !.currentTerrain = terrainAt(p)]
  /\ idleCheckInterval = 0
  /\ intervals = {}
  /\ nextTimerId = 1
  /\ tasks = <<>>
  /\ posted = <<>>
  /\ ncmds = 0
  /\ GameInit

TableNext ==
  \E direction \in MoveDirections : ncmds < MaxTableCmds /\ Move(direction)

TableSpec == TableInit /\ [][TableNext]_vars

(***************************************************************************)
(* WalkSpec: the engine walks the whole map.  Commands follow one another  *)
(* from the initial state, enough of them to reach every cell the player   *)
(* can reach from the spawn cell and to try a move from it.                *)
(***************************************************************************)
\* the directions of the Move commands of WalkSpec
WalkDirections == MoveDirections \cup {"back"}

WalkNext ==
  \/ ncmds = 0 /\ Start
  \/ \E direction \in WalkDirections : ncmds < MaxWalkCmds /\ Move(direction)
  \/ \E task \in UnknownTasks : ncmds < MaxWalkCmds /\ UnknownTask(task)

WalkSpec == Init /\ [][WalkNext]_vars

(***************************************************************************)
(* DrawSpec: the drawing routine.  The controller has been started and has *)
(* handled the event of a Start, with the map and the snapshot of a worker *)
(* whose player has not moved or has just moved to any cell it can reach;  *)
(* the animation settings change and the frame loop draws.                 *)
(***************************************************************************)
\* the cells a snapshot may put the player on
DrawCells == {p \in Cells : canMove(p)}
\* the arguments of setAnimationSettings
DrawSettings ==
  {[enableClouds |-> TRUE, enableWaves |-> TRUE, enableRiver |-> TRUE],
   [enableClouds |-> FALSE, enableWaves |-> TRUE, enableRiver |-> FALSE]}

\* the last moves of the player: for every cell it can stand on, one move
\* that takes it there from a cell it can stand on
DrawMoves ==
  {CHOOSE m \in [from : DrawCells, direction : MoveDirections] :
     newPos(m.from, m.direction) = p : p \in DrawCells}

\* the event of the worker for a Start received now, on the gameState gs
startEventOn(gs) ==
  handleGameStart([gs EXCEPT !.lastActivityTime = now], defaultTime).posted[1]

\* the event of the worker for a Start after the move m of the player
startEvent(m) ==
  startEventOn(handleMovement([InitialGameState EXCEPT
                                 !.position = m.from,
                                 !.terrain = terrainAt(m.from),
                                 !.currentTerrain = terrainAt(m.from)],
                              m.direction).gameState)

\* the events of the worker for a Start: before any move and after a move
startEvents == {startEventOn(InitialGameState)} \cup {startEvent(m) : m \in DrawMoves}

DrawInit ==
  /\ now = 0
  /\ gameState = InitialGameState
  /\ idleCheckInterval = 0
  /\ intervals = {}
  /\ nextTimerId = 1
  /\ tasks = <<>>
  /\ posted = <<>>
  /\ ncmds = 0
  /\ random \in RandomStreams
  /\ \E e \in startEvents :
       LET c0 == [game |-> InitialGame, timeouts |-> <<>>, animationFrames |-> {},
                  nextFrameId |-> 1, sent |-> <<>>, dispatched |-> <<>>,
                  drawn |-> FALSE, canvas |-> InitialCanvas,
                  listeners |-> setupEventListeners]
           c == workerOnmessage(start(c0), e)
       IN /\ game = c.game
          /\ timeouts = c.timeouts
          /\ animationFrames = c.animationFrames
          /\ nextFrameId = c.nextFrameId
          /\ sent = c.sent
          /\ dispatched = c.dispatched
          /\ drawn = c.drawn
          /\ canvas = c.canvas
          /\ listeners = c.listeners
  /\ inflight = <<>>
  /\ gameStarted = TRUE
  /\ ninputs = 0
  /\ lastInput = <<"message", STATUS_PROCESSING>>

DrawArrival == ninputs < MaxDrawInputs

DrawAdvance ==
  \E t \in dueTimes : t > now /\ Advance(t - now, MaxDrawTime)

DrawNext ==
  \/ \E settings \in DrawSettings : DrawArrival /\ SetAnimationSettings(settings)
  \/ \E f \in animationFrames : Frame(f)
  \/ DrawAdvance

DrawSpec == DrawInit /\ [][DrawNext]_vars

(***************************************************************************)
(* The claims.  The statements below describe the map, the directions and  *)
(* the thresholds in the words of the specification: the map is 20 cells   *)
(* wide and 15 high, Water and Mountain are the impassable kinds.          *)
(***************************************************************************)
\* p + unit(d)
Target(p, d) ==
  [x |-> p.x + (IF d = "right" THEN 1 ELSE IF d = "left" THEN -1 ELSE 0),
   y |-> p.y + (IF d = "down" THEN 1 ELSE IF d = "up" THEN -1 ELSE 0)]

\* the cell q is inside the map and its terrain is walkable
Passable(q) ==
  /\ q.x \in 0..19
  /\ q.y \in 0..14
  /\ terrainMap[q.y + 1][q.x + 1] \notin {"W", "M"}

\* the last step posted exactly one event, of this status, with a snapshot
PostedOne(events, status) ==
  /\ Len(events) = 1
  /\ events[1].status = status
  /\ "gameState" \in DOMAIN events[1]
  /\ "message" \in DOMAIN events[1]

\* C1: for every cell p taken as the current position and every movement
\* direction d, Move(d) succeeds (the position becomes p + unit(d), reported
\* by a Processing event) if and only if p + unit(d) is inside the map and
\* its terrain is walkable; otherwise it is blocked (the position stays p,
\* reported by an Error event).
C1_MoveSucceedsIffPassable ==
  [][\A d \in MoveDirections :
       Move(d) =>
         LET p == gameState.position
             q == Target(p, d)
         IN IF Passable(q)
            THEN /\ gameState'.position = q
                 /\ PostedOne(posted', STATUS_PROCESSING)
            ELSE /\ gameState'.position = p
                 /\ PostedOne(posted', STATUS_ERROR)]_vars

\* C1 witness: a Move from a border cell towards the outside of the map was
\* handled and blocked
C1_Witness ==
  /\ PostedOne(posted, STATUS_ERROR)
  /\ posted[1].message[4] = "boundary"
  /\ gameState.position = [x |-> 19, y |-> 13]
  /\ gameState.message = posted[1].message

\* C2 as stated: a blocked Move(d) posts exactly one Error event carrying a
\* message and the snapshot, leaves position and currentTerrain unchanged,
\* and changes no displayed field of the player state other than facing
\* (set to d) and the message (the timestamp of the last activity, which is
\* not displayed, is left out of the comparison).
C2_BlockedChangesOnlyFacingAndMessage ==
  [][\A d \in MoveDirections :
       (Move(d) /\ ~Passable(Target(gameState.position, d))) =>
         /\ PostedOne(posted', STATUS_ERROR)
         /\ posted'[1].gameState = gameState'
         /\ gameState' = [gameState EXCEPT !.facing = d,
                                           !.message = posted'[1].message,
                                           !.lastActivityTime = now]]_vars

\* C2 amended: a blocked Move(d) posts exactly one Error event carrying the
\* blocked message and the snapshot, and leaves position, terrain and
\* currentTerrain unchanged; of the player state only facing (set to d),
\* the message, and the activity fields change: idleState is reset to
\* Active and lastActivityTime is set to the time of the command.
C2_BlockedChangesFacingMessageActivity ==
  [][\A d \in MoveDirections :
       (Move(d) /\ ~Passable(Target(gameState.position, d))) =>
         /\ PostedOne(posted', STATUS_ERROR)
         /\ posted'[1].gameState = gameState'
         /\ posted'[1].message[1] = "Cannot move "
         /\ gameState' = [gameState EXCEPT !.facing = d,
                                           !.message = posted'[1].message,
                                           !.idleState = ACTIVE,
                                           !.lastActivityTime = now]]_vars

\* C2 witness: a Move(left) from the beach left of the spawn was blocked by
\* Water, with the idle timer running and at least one of its ticks passed
C2_Witness ==
  /\ PostedOne(posted, STATUS_ERROR)
  /\ posted[1].message = <<"Cannot move ", "left", " - blocked by ", "Water">>
  /\ gameState.position = [x |-> 1, y |-> 2]
  /\ gameState.idleState = ACTIVE
  /\ gameState.lastActivityTime = now
  /\ now >= 500
  /\ intervals # {}

\* C3: a successful Move(d) from p sets position to p + unit(d) and
\* currentTerrain to the map's terrain there, and posts exactly one
\* Processing event whose snapshot carries the new position and whose
\* message is "Moved {d} from {terrain name at p} to {terrain name at
\* target}"; Move(up) from the spawn (2,2) succeeds and the new terrain is
\* the map's value at (2,1).
C3_SuccessfulMove ==
  [][\A d \in MoveDirections :
       Move(d) =>
         LET p == gameState.position
             q == Target(p, d)
         IN /\ Passable(q) =>
                 /\ gameState'.position = q
                 /\ gameState'.currentTerrain = terrainMap[q.y + 1][q.x + 1]
                 /\ PostedOne(posted', STATUS_PROCESSING)
                 /\ posted'[1].gameState.position = q
                 /\ posted'[1].message =
                      <<"Moved ", d, " from ",
                        terrainNames[terrainMap[p.y + 1][p.x + 1]], " to ",
                        terrainNames[terrainMap[q.y + 1][q.x + 1]]>>
            /\ (p = [x |-> 2, y |-> 2] /\ d = "up") =>
                 /\ posted'[1].status = STATUS_PROCESSING
                 /\ gameState'.position = [x |-> 2, y |-> 1]
                 /\ gameState'.currentTerrain = terrainMap[2][3]]_vars

\* C3 witness: Move(up) from the spawn has succeeded, onto the Beach at (2,1)
C3_Witness ==
  /\ PostedOne(posted, STATUS_PROCESSING)
  /\ posted[1].message = <<"Moved ", "up", " from ", "Grassland", " to ", "Beach">>
  /\ gameState.position = [x |-> 2, y |-> 1]
  /\ gameState.currentTerrain = "B"

\* the step is the handling of a Start command
StartStep == Start \/ \E time \in CommandTimes : StartWithTime(time)

\* C4 as stated: the snapshot posted for a Start command, whatever commands
\* preceded it, has position (2,2), facing down, idleState Active and the
\* terrain of the map at (2,2).
C4_StartReinitializes ==
  [][StartStep =>
       /\ PostedOne(posted', STATUS_PROCESSING)
       /\ posted'[1].gameState.position = [x |-> 2, y |-> 2]
       /\ posted'[1].gameState.facing = "down"
       /\ posted'[1].gameState.idleState = ACTIVE
       /\ posted'[1].gameState.terrain = terrainMap[3][3]]_vars

\* the step is the handling of an accepted command: a Start, or a Move in
\* one of the four movement directions
AcceptedCommandStep == StartStep \/ \E d \in MoveDirections : Move(d)

\* C5 as stated: the handler of any accepted command leaves idleState
\* Active, whatever idleState was before.
C5_AcceptedCommandSetsActive ==
  [][AcceptedCommandStep => gameState'.idleState = ACTIVE]_vars

\* C6 as stated: a command with an unrecognized task is answered with
\* exactly one Error event whose message names the task and alters no field
\* of the player state, lastActivityTime included.
C6_UnknownTaskLeavesState ==
  [][\A task \in UnknownTasks :
       UnknownTask(task) =>
         /\ posted' = << [status |-> STATUS_ERROR,
                          message |-> <<"Unknown task: ", task>>] >>
         /\ gameState' = gameState]_vars

\* the idleState the thresholds give for e ms of inactivity
StateOfInactivity(e) ==
  CASE e < 200 -> "active"
    [] 200 <= e /\ e < 5000 -> "resting"
    [] 5000 <= e /\ e < 30000 -> "idle"
    [] e >= 30000 -> "sleeping"

\* the place of an idleState in the order Active, Resting, Idle, Sleeping
IdleRank(state) ==
  CASE state = "active" -> 0
    [] state = "resting" -> 1
    [] state = "idle" -> 2
    [] state = "sleeping" -> 3

\* the step is a tick of an idle-decay timer
TickStep == \E t \in intervals : IdleCheck(t)

\* C7: after every tick of the idle-decay timer, idleState is the state the
\* thresholds give for e = now - lastActivityTime: Active if e < 200,
\* Resting if 200 <= e < 5000, Idle if 5000 <= e < 30000, Sleeping if
\* e >= 30000.
C7_TickSetsStateOfInactivity ==
  [][TickStep =>
       gameState'.idleState =
         StateOfInactivity(now - gameState.lastActivityTime)]_vars

\* C7 witness: a tick at exactly 30000 ms of inactivity has entered Sleeping
C7_Witness ==
  /\ now - gameState.lastActivityTime = 30000
  /\ gameState.idleState = "sleeping"
  /\ Len(posted) = 1
  /\ posted[1].message = <<"State changed to ", "sleeping">>

\* C8 as stated: while no command is received, the ticks of the idle timer
\* take idleState through Active, Resting, Idle, Sleeping in that order:
\* a tick never moves idleState back and never skips a state, it enters
\* the state of the threshold the inactivity has reached, and Sleeping
\* stays Sleeping.
C8_DecayInOrder ==
  [][TickStep =>
       /\ IdleRank(gameState'.idleState) >= IdleRank(gameState.idleState)
       /\ IdleRank(gameState'.idleState) <= IdleRank(gameState.idleState) + 1
       /\ gameState'.idleState =
            StateOfInactivity(now - gameState.lastActivityTime)]_vars

\* C9 as stated: every change of idleState is a step of the idle timer
\* between two adjacent states of the order, or a reset to Active by the
\* handler of an accepted command.
C9_IdleStateChanges ==
  [][gameState'.idleState # gameState.idleState =>
       \/ /\ TickStep
          /\ IdleRank(gameState'.idleState) - IdleRank(gameState.idleState)
               \in {-1, 1}
       \/ /\ AcceptedCommandStep
          /\ gameState'.idleState = "active"]_vars

\* C10: a tick of the idle timer whose recomputed idleState differs from
\* the current one stores it and posts exactly one Processing event that
\* carries the snapshot with the new idleState and the message "State
\* changed to {new state}"; a tick whose recomputed idleState is the
\* current one changes nothing of the player state and posts no event.
C10_TickPostsExactlyOnChange ==
  [][TickStep =>
       LET new == StateOfInactivity(now - gameState.lastActivityTime)
       IN IF new # gameState.idleState
          THEN /\ gameState' = [gameState EXCEPT !.idleState = new]
               /\ posted' = << [status |-> STATUS_PROCESSING,
                                gameState |-> gameState',
                                message |-> <<"State changed to ", new>>] >>
          ELSE /\ gameState' = gameState
               /\ posted' = <<>>]_vars

\* C10 witness: a tick has changed idleState to Idle and posted the event
C10_Witness ==
  /\ gameState.idleState = "idle"
  /\ posted = << [status |-> STATUS_PROCESSING,
                  gameState |-> gameState,
                  message |-> <<"State changed to ", "idle">>] >>

\* the last step answered a Move(d) with a blocked message
BlockedAnswer(events, d) ==
  /\ Len(events) = 1
  /\ "gameState" \in DOMAIN events[1]
  /\ events[1].message[1] = "Cannot move "
  /\ events[1].message[2] = d

\* C11: a Move(d) that repeats, as the very next step, a Move(d) that was
\* blocked is answered by an Error event with the same blocked message, and
\* leaves position, currentTerrain, facing and message unchanged.
C11_RepeatedBlockedMove ==
  [][\A d \in MoveDirections :
       (BlockedAnswer(posted, d) /\ Move(d)) =>
         /\ PostedOne(posted', STATUS_ERROR)
         /\ posted'[1].message = posted[1].message
         /\ gameState'.position = gameState.position
         /\ gameState'.currentTerrain = gameState.currentTerrain
         /\ gameState'.facing = gameState.facing
         /\ gameState'.message = gameState.message]_vars

\* C11 witness: three commands were received at the corner cell (0,0), none
\* of which can move the player, and the last was a Move(left) blocked by
\* the boundary
C11_Witness ==
  /\ ncmds = 3
  /\ gameState.position = [x |-> 0, y |-> 0]
  /\ BlockedAnswer(posted, "left")
  /\ posted[1].status = STATUS_ERROR
  /\ gameState.message = <<"Cannot move ", "left", " - blocked by ", "boundary">>

\* C12: the message of a blocked Move(d) is "Cannot move {d} - blocked by
\* X", where X is the display name of the terrain of the target cell when
\* the target is inside the map and 'boundary' when it is outside.
C12_BlockedMessage ==
  [][\A d \in MoveDirections :
       (Move(d) /\ ~Passable(Target(gameState.position, d))) =>
         LET q == Target(gameState.position, d)
             X == IF q.x \in 0..19 /\ q.y \in 0..14
                  THEN terrainNames[terrainMap[q.y + 1][q.x + 1]]
                  ELSE "boundary"
         IN /\ Len(posted') = 1
            /\ posted'[1].message = <<"Cannot move ", d, " - blocked by ", X>>]_vars

\* C12 witness: a Move(right) from the Hills at (8,2) was blocked by the
\* Mountain at (9,2)
C12_Witness ==
  /\ gameState.position = [x |-> 8, y |-> 2]
  /\ PostedOne(posted, STATUS_ERROR)
  /\ posted[1].message = <<"Cannot move ", "right", " - blocked by ", "Mountain">>

\* C13: with the player at (1,1), Move(left) is answered by an Error event
\* whose message contains "blocked by Water"; so is every Move whose target
\* is a Water cell of the map.
C13_BlockedByWater ==
  [][\A d \in MoveDirections :
       Move(d) =>
         LET p == gameState.position
             q == Target(p, d)
             answer == posted'[1]
             byWater == /\ Len(posted') = 1
                        /\ answer.status = STATUS_ERROR
                        /\ answer.message[3] = " - blocked by "
                        /\ answer.message[4] = "Water"
         IN /\ (p = [x |-> 1, y |-> 1] /\ d = "left") => byWater
            /\ (q.x \in 0..19 /\ q.y \in 0..14
                  /\ terrainMap[q.y + 1][q.x + 1] = "W") => byWater]_vars

\* C13 witness: Move(left) was handled with the player at (1,1)
C13_Witness ==
  /\ gameState.position = [x |-> 1, y |-> 1]
  /\ gameState.facing = "left"
  /\ PostedOne(posted, STATUS_ERROR)
  /\ posted[1].message = <<"Cannot move ", "left", " - blocked by ", "Water">>

\* the progress event of step n
ProgressEvent(n) == [status |-> STATUS_PROCESSING, step |-> n, total |-> 100]

\* the completion event of a task started with delay d
FinishedEvent(d) ==
  [status |-> STATUS_FINISHED, result |-> d * 100,
   message |-> <<"Task finished with time = ", ToString(d)>>]

\* the events are those of a progress task
TaskEvents(events) ==
  \E j \in 1..Len(events) :
    "step" \in DOMAIN events[j] \/ events[j].status = STATUS_FINISHED

AnyProgressStep == \E k \in 1..Len(tasks) : ProgressStep(k)

\* C14: a Start with delay d (100 when it carries none) starts a task that
\* has emitted no step; the n-th step of a task emits the progress event
\* (step n, total 100) and nothing else while n < 100; the 100th step emits
\* the progress event of step 100 followed by one Finished event with result
\* d * 100, and ends the task; no other step emits such events; every task
\* started eventually emits its Finished event.
C14_HundredStepsThenFinished ==
  /\ [][/\ Start => tasks' = Append(tasks, [i |-> 0, time |-> 100, due |-> now + 100])
        /\ \A d \in ProgressTimes :
             StartWithTime(d) =>
               tasks' = Append(tasks, [i |-> 0, time |-> d, due |-> now + d])
        /\ \A k \in 1..Len(tasks) :
             ProgressStep(k) =>
               LET n == tasks[k].i + 1
                   d == tasks[k].time
               IN /\ n \in 1..100
                  /\ n < 100 =>
                       /\ posted' = <<ProgressEvent(n)>>
                       /\ Len(tasks') = Len(tasks)
                       /\ tasks'[k].i = n
                       /\ tasks'[k].time = d
                       /\ \A j \in 1..Len(tasks) : j # k => tasks'[j] = tasks[j]
                  /\ n = 100 =>
                       /\ posted' = <<ProgressEvent(100), FinishedEvent(d)>>
                       /\ tasks' = [j \in 1..(Len(tasks) - 1) |->
                                      IF j < k THEN tasks[j] ELSE tasks[j + 1]]
        /\ TaskEvents(posted') => AnyProgressStep]_vars
  /\ (tasks # <<>>) ~> (tasks = <<>>)

\* C14 witness: the 100th step of a task started with delay 10 has emitted
\* its progress event and Finished with result 1000
C14_Witness ==
  /\ posted = <<ProgressEvent(100), FinishedEvent(10)>>
  /\ posted[2].result = 1000
  /\ now = 1000

\* a progress task is suspended between two of its steps
Suspended == \E k \in 1..Len(tasks) : tasks[k].i \in 1..99

\* the answer of a Move: one success or blocked event with the snapshot
MoveAnswer(events) ==
  /\ Len(events) = 1
  /\ events[1].status \in {STATUS_PROCESSING, STATUS_ERROR}
  /\ "gameState" \in DOMAIN events[1]
  /\ events[1].message[1] \in {"Moved ", "Cannot move "}

\* C15: in every state in which a progress task is suspended between two
\* steps, a Move can be handled at once, by a step that
\* posts its answer (success or blocked), in which the task takes no step
\* and emits nothing: the command waits neither for the next step nor for
\* Finished.
C15_MoveAnsweredWhileTaskSuspended ==
  Suspended =>
    \A d \in ProgressDirections :
      ENABLED (/\ Move(d)
               /\ MoveAnswer(posted')
               /\ ~TaskEvents(posted')
               /\ tasks' = tasks)

\* C15 witness: a Move has just been answered at 50 ms, when the task
\* started with delay 10 is between two of its steps
C15_Witness ==
  /\ MoveAnswer(posted)
  /\ now = 50
  /\ \E k \in 1..Len(tasks) : tasks[k].time = 10 /\ tasks[k].i \in 1..99

\* C16: a step of a progress task leaves gameState unchanged and its events
\* carry no snapshot and no world map, only the step count and the result,
\* which are those of the task's own counter and delay; a Move leaves every
\* task, its counter, its delay and its due time unchanged.
C16_ProgressIndependentOfMovement ==
  [][/\ \A k \in 1..Len(tasks) :
          ProgressStep(k) =>
            /\ gameState' = gameState
            /\ \A j \in 1..Len(posted') :
                 DOMAIN posted'[j] \cap {"gameState", "terrainMap"} = {}
            /\ posted'[1] = ProgressEvent(tasks[k].i + 1)
            /\ Len(posted') = 2 => posted'[2] = FinishedEvent(tasks[k].time)
     /\ \A d \in Direction : Move(d) => tasks' = tasks]_vars

\* C16 witness: a task finishes with its 100th step and result 1000 after a
\* Move(up) has taken the player from the spawn cell to (2,1)
C16_Witness ==
  /\ posted = <<ProgressEvent(100), FinishedEvent(10)>>
  /\ gameState.position = [x |-> 2, y |-> 1]
  /\ gameState.facing = "up"

\* a move request: a key press or an on-screen button
MoveRequest ==
  \/ \E key \in Keys : KeyDown(key)
  \/ \E d \in MoveDirections : Button(d)

\* the Move commands among the messages sent to the worker
IsMoveCommand(m) == m.data.task = MESSAGE_GAME_UPDATE

\* C17: a move request made while the cooldown is active or while the
\* controller is not running posts nothing to the worker, starts no timeout
\* and leaves the controller's state (facing and isMoving among it) and the
\* cooldown as they were.
C17_RejectedMoveChangesNothing ==
  [][((game.movementCooldown \/ ~game.isRunning) /\ MoveRequest) =>
       /\ sent' = sent
       /\ timeouts' = timeouts
       /\ game'.state = game.state
       /\ game'.movementCooldown = game.movementCooldown]_vars

\* C17 witness: the last input was the key ArrowUp, pressed while the
\* controller was running and inside the cooldown of a move to the right:
\* the player still faces right and only that one Move has been sent
C17_Witness ==
  /\ lastInput = <<"keydown", "ArrowUp">>
  /\ game.isRunning
  /\ game.movementCooldown
  /\ game.state.facing = "right"
  /\ Len(sent) = 2
  /\ sent[2].data = [task |-> MESSAGE_GAME_UPDATE, direction |-> "right"]
  /\ now = sent[2].at + 100

\* C18: any two Move commands the controller has sent are at least 200 ms
\* apart.
C18_MovesAtLeast200msApart ==
  \A i, j \in 1..Len(sent) :
    (i < j /\ IsMoveCommand(sent[i]) /\ IsMoveCommand(sent[j])) =>
      sent[j].at - sent[i].at >= 200

\* C18 witness: two Move commands have been sent, the second exactly 200 ms
\* after the first
C18_Witness ==
  \E i, j \in 1..Len(sent) :
    /\ i < j
    /\ IsMoveCommand(sent[i])
    /\ IsMoveCommand(sent[j])
    /\ sent[j].at - sent[i].at = 200

\* C19: in every controller state, cooldown active implies isMoving true.
C19_CooldownImpliesIsMoving ==
  game.movementCooldown => game.state.isMoving

\* the divisor of the throttle interval 1000/n the idle state calls for
ThrottleDivisor(idleState) ==
  CASE idleState = ACTIVE -> 30
    [] idleState = RESTING -> 20
    [] idleState = IDLE -> 10
    [] idleState = SLEEPING -> 5

\* C20: a frame-loop tick redraws the frame if and only if the time since
\* the last draw is at least 1000/n ms, n being 30, 20, 10 or 5 according
\* to the controller's idleState (Active, Resting, Idle, Sleeping).
C20_ThrottleFollowsIdleState ==
  [][\A f \in animationFrames :
       (Frame(f) /\ game.isRunning) =>
         (drawn' <=>
            (now - game.lastFrameTime) * ThrottleDivisor(game'.state.idleState)
               >= 1000)]_vars

\* the event e carries a snapshot of the player state
CarriesSnapshot(e) == "gameState" \in DOMAIN e

\* C21: when the controller handles an event that carries a snapshot, its
\* displayed state takes position, facing, terrain and idleState from the
\* snapshot and the message of the event, currentTerrain becomes the
\* snapshot's terrain, and a notification is published that carries the
\* merged state, the current terrain and the message.
C21_SnapshotReceipt ==
  [][\A e \in WorkerEvents :
       (WorkerMessage(e) /\ CarriesSnapshot(e)) =>
         /\ game'.state.position = e.gameState.position
         /\ game'.state.facing = e.gameState.facing
         /\ game'.state.terrain = e.gameState.terrain
         /\ game'.state.idleState = e.gameState.idleState
         /\ game'.state.message = e.message
         /\ game'.currentTerrain = e.gameState.terrain
         /\ \E j \in 1..Len(dispatched') :
              /\ dispatched'[j].state = game'.state
              /\ dispatched'[j].currentTerrain = e.gameState.terrain
              /\ dispatched'[j].message = e.message]_vars

\* C21 witness: the controller turned the player up on a key press and then
\* handled the worker's event for that move, whose snapshot has the player
\* one cell up, facing up, on Forest: the displayed state and the last
\* notification show it
C21_Witness ==
  /\ lastInput = <<"message", STATUS_PROCESSING>>
  /\ game.state.position = [x |-> 2, y |-> 1]
  /\ game.state.facing = "up"
  /\ game.currentTerrain = game.state.terrain
  /\ game.state.terrain = terrainAt(game.state.position)
  /\ dispatched # <<>>
  /\ dispatched[Len(dispatched)].state = game.state

\* the step is the receipt of an event that carries a snapshot
SnapshotReceipt == \E e \in WorkerEvents : WorkerMessage(e) /\ CarriesSnapshot(e)

\* the step runs the frame loop: start() or a frame callback
FrameLoopStep == GameStart \/ \E f \in animationFrames : Frame(f)

\* C22: between two receipts of a snapshot the controller never modifies its
\* copy of the player state: no step other than the receipt of a snapshot
\* changes position, facing, terrain, idleState or lastActivityTime.
C22_OnlySnapshotsChangePlayerState ==
  [][~SnapshotReceipt =>
       /\ game'.state.position = game.state.position
       /\ game'.state.facing = game.state.facing
       /\ game'.state.terrain = game.state.terrain
       /\ game'.state.idleState = game.state.idleState
       /\ game'.state.lastActivityTime = game.state.lastActivityTime]_vars

\* C22, amended: a step other than the receipt of a snapshot never changes
\* position or terrain; it changes facing only if it is a move request
\* accepted by move(), which posts a Move command; it changes idleState or
\* lastActivityTime only if it runs the frame loop while isMoving is true,
\* and then to Active and the current time.
C22_LocalChangesOfPlayerState ==
  [][~SnapshotReceipt =>
       /\ game'.state.position = game.state.position
       /\ game'.state.terrain = game.state.terrain
       /\ (game'.state.facing # game.state.facing =>
             /\ MoveRequest
             /\ game.isRunning /\ ~game.movementCooldown
             /\ Len(sent') = Len(sent) + 1
             /\ IsMoveCommand(sent'[Len(sent')])
             /\ game'.state.facing = sent'[Len(sent')].data.direction)
       /\ ((\/ game'.state.idleState # game.state.idleState
            \/ game'.state.lastActivityTime # game.state.lastActivityTime) =>
             /\ FrameLoopStep
             /\ game.state.isMoving
             /\ game'.state.idleState = ACTIVE
             /\ game'.state.lastActivityTime = now)]_vars

\* C22 witness: the Start event has been handled, its snapshot has the
\* player at the spawn cell facing down with lastActivityTime 0; a key press
\* has since turned the player up and a frame has refreshed its activity
\* time, while position and terrain are still the snapshot's
C22_Witness ==
  /\ game.terrainMap # <<>>
  /\ Len(sent) = 2
  /\ IsMoveCommand(sent[2])
  /\ game.state.isMoving
  /\ game.state.facing = "up"
  /\ game.state.lastActivityTime > 0
  /\ game.state.position = SpawnPosition
  /\ game.state.terrain = "G"

\* C24: every notification published while handling an event that carries
\* the world map includes that map; in particular no notification for the
\* first Start event carries an empty map.
C24_NotificationsCarryTheMap ==
  [][\A e \in WorkerEvents :
       (WorkerMessage(e) /\ "terrainMap" \in DOMAIN e) =>
         \A j \in 1..Len(dispatched') : dispatched'[j].terrainMap = e.terrainMap]_vars

\* C30: every cell on the border of the world map (first or last row, first
\* or last column of its row) is impassable, and all rows of the map have
\* the same length; so canMove refuses the cell of a player placed on the
\* border.
C30_BorderImpassable ==
  /\ \A row \in 1..Len(terrainMap) :
       /\ Len(terrainMap[row]) = Len(terrainMap[1])
       /\ \A col \in 1..Len(terrainMap[row]) :
            (row \in {1, Len(terrainMap)} \/ col \in {1, Len(terrainMap[row])}) =>
              ~terrainProperties[terrainMap[row][col]].walkable
  /\ (\/ gameState.position.y \in {0, Len(terrainMap) - 1}
      \/ gameState.position.x \in {0, Len(terrainMap[gameState.position.y + 1]) - 1}) =>
       ~canMove(gameState.position)

\* C30 witness: the player stands on the River cell (1,5) next to the west
\* border and its move to the left, to the border cell (0,5), has been
\* refused: the border cell is Water
C30_Witness ==
  /\ gameState.position = [x |-> 1, y |-> 5]
  /\ gameState.terrain = "R"
  /\ gameState.facing = "left"
  /\ Len(posted) = 1
  /\ posted[1].status = STATUS_ERROR
  /\ posted[1].message = <<"Cannot move ", "left", " - blocked by ", "Water">>

\* C29: after destroy() the pending frame callback is cancelled and the
\* controller no longer runs, so that no further update or render is made,
\* and the keydown and resize listeners registered at construction are no
\* longer attached to the window.
C29_DestroyDetaches ==
  [][GameDestroy =>
       /\ ~game'.isRunning
       /\ \A f \in animationFrames' : f.id # game.animationFrame
       /\ \A l \in listeners' :
            ~(l.type = "keydown" /\ l.fn.method = "handleKeyDown")
              /\ ~(l.type = "resize" /\ l.fn.method = "handleResize")]_vars

\* the step runs update with an animation update in it: the frame loop runs
\* and more than 16 ms have passed since the last animation update
AnimationUpdate ==
  /\ GameStart \/ (game.isRunning /\ \E f \in animationFrames : Frame(f))
  /\ now - game.lastAnimationUpdate > 16

\* C23: with or without events of the engine the frame loop keeps running
\* and shows the position of the last snapshot: no step other than the
\* receipt of a snapshot (move(), frame ticks, setAnimationSettings, stop(),
\* start(), resizes, timeouts) changes the controller's position, terrain or
\* currentTerrain; a frame tick of a running controller requests the next
\* frame, and when it draws it draws the character at that position.
C23_LastSnapshotStaysDisplayed ==
  [][/\ ~SnapshotReceipt =>
          /\ game'.state.position = game.state.position
          /\ game'.state.terrain = game.state.terrain
          /\ game'.currentTerrain = game.currentTerrain
     /\ \A f \in animationFrames :
          (Frame(f) /\ game.isRunning) =>
            /\ game'.isRunning
            /\ \E g \in animationFrames' :
                 g.id = game'.animationFrame /\ g.due = now + refreshPeriod
            /\ drawn' =>
                 \E j \in 1..Len(canvas'.ops) :
                   /\ canvas'.ops[j].op = "drawCharacter"
                   /\ canvas'.ops[j].x = game.state.position.x * 40000
                   /\ canvas'.ops[j].y = game.state.position.y * 40000 - 5000]_vars

\* C23 witness: the snapshot of a move to the right was the last event
\* handled, at the instant of the construction; 40 ms or more later the frame loop
\* is still running and has just drawn the character on the cell (3,2) of
\* that snapshot
C23_Witness ==
  /\ lastInput = <<"message", STATUS_PROCESSING>>
  /\ game.state.position = [x |-> 3, y |-> 2]
  /\ game.isRunning
  /\ now >= 6300
  /\ drawn
  /\ \E j \in 1..Len(canvas.ops) :
       /\ canvas.ops[j].op = "drawCharacter"
       /\ canvas.ops[j].x = 120000
       /\ canvas.ops[j].y = 75000
  /\ \E f \in animationFrames : f.id = game.animationFrame /\ f.due > now

\* C25: in every state of the controller the cloud set has exactly 8 clouds.
C25_EightClouds == Len(game.clouds) = 8

\* C25 witness: after a resize to a canvas 400 wide and an animation update
\* with clouds enabled that replaced the clouds beyond its right edge, there
\* are 8 clouds
C25_Witness ==
  /\ canvas.width = 400
  /\ game.animationSettings.enableClouds
  /\ game.cloudOffset > 0
  /\ game.clouds[7].x < 0
  /\ game.clouds[8].x < 0
  /\ Len(game.clouds) = 8

\* the cloud has exited the right edge of the canvas cv
Exited(cloud, cv) == cloud.x > cv.width * 1000 + cloud.size

\* C26: when an animation update with clouds enabled finds, after moving a
\* cloud by its speed, that it has exited the right edge of the canvas, the
\* cloud of the same slot after the update is a new one with x <= 0; and no
\* cloud is beyond the right edge after the update.
C26_ExitedCloudReplaced ==
  [][(AnimationUpdate /\ game.animationSettings.enableClouds) =>
       \A i \in 1..Len(game.clouds) :
         /\ Exited([game.clouds[i] EXCEPT !.x = @ + game.clouds[i].speed], canvas) =>
              /\ game'.clouds[i].x <= 0
              /\ game'.clouds[i].x = 0 - game'.clouds[i].size
         /\ ~Exited(game'.clouds[i], canvas')]_vars

\* C26 witness: clouds are enabled, one animation update has been made and
\* the last cloud, created beyond the right edge of the canvas, is now at
\* its own width to the left of the canvas
C26_Witness ==
  /\ game.animationSettings.enableClouds
  /\ game.cloudOffset = 200
  /\ canvas.width = 800
  /\ game.clouds[8].x = 0 - game.clouds[8].size
  /\ \A i \in 1..7 : game.clouds[i].x > 0

\* the step is a call of setAnimationSettings
SettingsCall == \E settings \in AnimSettings : SetAnimationSettings(settings)

\* C27: the wave phase and the river phase change only on an animation
\* update made while their setting is enabled, and then lie in [0, 2*pi), or
\* when the setting is disabled, and then to 0; in every state where the
\* setting is disabled the phase is 0.
C27_PhaseContract ==
  [][/\ (game'.waterOffset # game.waterOffset) =>
          \/ /\ AnimationUpdate
             /\ game.animationSettings.enableWaves
             /\ game'.waterOffset \in 0..(TwoPi - 1)
          \/ /\ SettingsCall
             /\ ~game'.animationSettings.enableWaves
             /\ game'.waterOffset = 0
     /\ (game'.riverOffset # game.riverOffset) =>
          \/ /\ AnimationUpdate
             /\ game.animationSettings.enableRiver
             /\ game'.riverOffset \in 0..(TwoPi - 1)
          \/ /\ SettingsCall
             /\ ~game'.animationSettings.enableRiver
             /\ game'.riverOffset = 0
     /\ ~game'.animationSettings.enableWaves => game'.waterOffset = 0
     /\ ~game'.animationSettings.enableRiver => game'.riverOffset = 0]_vars

\* the drawing calls of terrain detail
DetailOps == {"drawTrees", "drawMountains", "drawWaves", "drawRiver"}

\* the drawing call is made on the cell p of a grid of 40 px tiles
OnCell(op, p) == op.x = p.x * 40000 /\ op.y = p.y * 40000

\* the terrains whose detail is drawn under the animation settings
DetailTerrains(settings) ==
  {"F", "M"} \cup (IF settings.enableWaves THEN {"W"} ELSE {})
             \cup (IF settings.enableRiver THEN {"R"} ELSE {})

\* the index of the drawCharacter call among the calls ops
CharacterAt(ops) == CHOOSE k \in 1..Len(ops) : ops[k].op = "drawCharacter"

\* C28: a frame that draws draws the terrain detail of every cell of the
\* map that has one, except the player's cell: no terrain detail is drawn
\* on the player's cell, whatever its terrain.
C28_NoDetailOnPlayerCell ==
  [][\A f \in animationFrames :
       (Frame(f) /\ drawn') =>
         LET ops == canvas'.ops
             p == game.state.position
         IN /\ \A q \in Cells :
                 (q # p /\ terrainAt(q) \in DetailTerrains(game.animationSettings)) =>
                   \E j \in 1..Len(ops) :
                     ops[j].op \in DetailOps /\ OnCell(ops[j], q)
            /\ \A j \in 1..Len(ops) :
                 ops[j].op \in DetailOps => ~OnCell(ops[j], p)]_vars

\* C28, amended: a frame that draws draws, before the character, the
\* terrain detail of every cell that has one except the player's cell;
\* after the character it draws the trees of the player's cell when that
\* cell is Forest, and nothing else but clouds.
C28_DetailAroundPlayerTreesOverPlayer ==
  [][\A f \in animationFrames :
       (Frame(f) /\ drawn') =>
         LET ops == canvas'.ops
             p == game.state.position
             k == CharacterAt(ops)
         IN /\ \E j \in 1..Len(ops) : ops[j].op = "drawCharacter"
            /\ \A q \in Cells :
                 (q # p /\ terrainAt(q) \in DetailTerrains(game.animationSettings)) =>
                   \E j \in 1..(k - 1) :
                     ops[j].op \in DetailOps /\ OnCell(ops[j], q)
            /\ \A j \in 1..(k - 1) :
                 ops[j].op \in DetailOps => ~OnCell(ops[j], p)
            /\ \A j \in (k + 1)..Len(ops) :
                 \/ ops[j].op = "drawCloud"
                 \/ /\ j = k + 1
                    /\ ops[j].op = "drawTrees"
                    /\ OnCell(ops[j], p)
            /\ terrainAt(p) = "F" =>
                 /\ k < Len(ops)
                 /\ ops[k + 1].op = "drawTrees"
                 /\ OnCell(ops[k + 1], p)
            /\ terrainAt(p) # "F" =>
                 \A j \in (k + 1)..Len(ops) : ops[j].op = "drawCloud"]_vars

\* C28 witness: the player stands on the Forest cell (4,2) and a frame has
\* been drawn with clouds enabled: the call that follows the character is
\* the trees of that cell and the clouds follow
C28_Witness ==
  /\ drawn
  /\ game.state.position = [x |-> 4, y |-> 2]
  /\ game.state.terrain = "F"
  /\ game.animationSettings.enableClouds
  /\ LET k == CharacterAt(canvas.ops)
     IN /\ canvas.ops[k + 1].op = "drawTrees"
        /\ OnCell(canvas.ops[k + 1], game.state.position)
        /\ Len(canvas.ops) = k + 1 + CLOUD_COUNT
        /\ canvas.ops[k + 2].op = "drawCloud"

\* the cell p is on the border of the map
OnBorder(p) ==
  \/ p.y \in {0, Len(terrainMap) - 1}
  \/ p.x \in {0, Len(terrainMap[1]) - 1}

\* C31: in every state of the engine the player's position is inside the
\* map, is not a border cell, and the terrain at that position is walkable.
C31_PositionWalkableInside ==
  /\ isInBounds(gameState.position)
  /\ ~OnBorder(gameState.position)
  /\ terrainProperties[terrainAt(gameState.position)].walkable

\* C31 witness: the player has walked from the spawn cell to the Beach cell
\* (18,7), the farthest one, next to the east border, and its move on to
\* the border cell (19,7) has been refused
C31_Witness ==
  /\ gameState.position = [x |-> 18, y |-> 7]
  /\ gameState.facing = "right"
  /\ Len(posted) = 1
  /\ posted[1].status = STATUS_ERROR
  /\ posted[1].message = <<"Cannot move ", "right", " - blocked by ", "Water">>
  /\ posted[1].gameState.position = [x |-> 18, y |-> 7]

\* C32: in every state of the engine, and in every snapshot it posts,
\* currentTerrain and terrain are the terrain of the map at the player's
\* position.
C32_TerrainOfPosition ==
  /\ gameState.currentTerrain = terrainAt(gameState.position)
  /\ gameState.terrain = terrainAt(gameState.position)
  /\ \A j \in 1..Len(posted) :
       "gameState" \in DOMAIN posted[j] =>
         /\ posted[j].gameState.currentTerrain = terrainAt(posted[j].gameState.position)
         /\ posted[j].gameState.terrain = terrainAt(posted[j].gameState.position)

\* C32 witness: the player has moved from the Grassland of the spawn cell up
\* to the Beach cell (2,1); the state and the snapshot of the event both
\* have Beach
C32_Witness ==
  /\ gameState.position = [x |-> 2, y |-> 1]
  /\ gameState.currentTerrain = "B"
  /\ gameState.terrain = "B"
  /\ Len(posted) = 1
  /\ posted[1].status = STATUS_PROCESSING
  /\ posted[1].gameState.position = [x |-> 2, y |-> 1]
  /\ posted[1].gameState.terrain = "B"

\* the event is the answer to a blocked move
BlockedEvent(e) == e.status = STATUS_ERROR /\ "gameState" \in DOMAIN e

\* C33: from the spawn cell no sequence of commands makes the engine compute
\* a target outside the map: no event says 'boundary', and every event of a
\* blocked move names the terrain Water or Mountain.
C33_NeverBoundary ==
  /\ \A d \in MoveDirections : isInBounds(newPos(gameState.position, d))
  /\ \A j \in 1..Len(posted) :
       /\ \A k \in 1..Len(posted[j].message) : posted[j].message[k] # "boundary"
       /\ BlockedEvent(posted[j]) =>
            /\ Len(posted[j].message) = 4
            /\ posted[j].message[4] \in {"Water", "Mountain"}

\* C33 witness: the player is on the Beach cell (2,1), one cell from the
\* north border, and its move up, to the border cell (2,0), has been
\* refused with the name of that cell's terrain
C33_Witness ==
  /\ gameState.position = [x |-> 2, y |-> 1]
  /\ gameState.facing = "up"
  /\ Len(posted) = 1
  /\ BlockedEvent(posted[1])
  /\ posted[1].message = <<"Cannot move ", "up", " - blocked by ", "Water">>

\* C34: a Move command whose direction is back or front is answered with
\* exactly one Error event and leaves the engine's position, currentTerrain
\* and facing unchanged; so the engine's facing is one of up, down, left
\* and right after every step.
C34_InvalidDirectionRejected ==
  [][/\ \A d \in Direction \ MoveDirections :
          Move(d) =>
            /\ Len(posted') = 1
            /\ posted'[1].status = STATUS_ERROR
            /\ gameState'.position = gameState.position
            /\ gameState'.currentTerrain = gameState.currentTerrain
            /\ gameState'.facing = gameState.facing
     /\ gameState'.facing \in MoveDirections]_vars

\* C36: after any number of Start commands at most one idle timer is active
\* in the engine, the one of the last Start, and none is active before the
\* first Start.
C36_AtMostOneIdleTimer ==
  /\ Cardinality(intervals) <= 1
  /\ \A t \in intervals : t.id = idleCheckInterval
  /\ idleCheckInterval = 0 => intervals = {}

\* C36 witness: a second Start has been received 100 ms or more after the
\* first; the timer of the first is gone and the only timer is the second,
\* due 500 ms after that Start
C36_Witness ==
  /\ idleCheckInterval = 2
  /\ now >= 100
  /\ intervals = {[id |-> 2, due |-> now + 500]}
  /\ Len(posted) = 1
  /\ posted[1].message = <<"Game initialized">>

\* C37: after any sequence of start() and stop() calls at most one callback
\* of the frame loop is scheduled, and a step made while the controller is
\* stopped, other than start(), runs no update and no render: it draws
\* nothing and schedules no callback.
C37_OneFrameLoop ==
  [][/\ Cardinality(animationFrames') <= 1
     /\ (~game.isRunning /\ ~GameStart) =>
          /\ ~drawn'
          /\ animationFrames' \subseteq animationFrames
          /\ game'.lastAnimationUpdate = game.lastAnimationUpdate]_vars

\* C38: a call of setAnimationSettings changes only what its argument
\* names: for each of clouds, waves and river that the argument omits, the
\* flag and the state of that animation (the clouds and cloudOffset,
\* waterOffset, riverOffset) are left as they were.
C38_PartialSettings ==
  [][\A settings \in AnimSettings :
       SetAnimationSettings(settings) =>
         /\ "enableClouds" \notin DOMAIN settings =>
              /\ game'.animationSettings.enableClouds = game.animationSettings.enableClouds
              /\ game'.clouds = game.clouds
              /\ game'.cloudOffset = game.cloudOffset
         /\ "enableWaves" \notin DOMAIN settings =>
              /\ game'.animationSettings.enableWaves = game.animationSettings.enableWaves
              /\ game'.waterOffset = game.waterOffset
         /\ "enableRiver" \notin DOMAIN settings =>
              /\ game'.animationSettings.enableRiver = game.animationSettings.enableRiver
              /\ game'.riverOffset = game.riverOffset]_vars

\* C39: a move the controller accepts starts the cooldown; the timeout that
\* ends it runs 200 ms after a Move command was sent and leaves the cooldown
\* cleared and isMoving false; and every state with the cooldown active is
\* followed by one with the cooldown cleared and isMoving false, whatever
\* calls of stop() and events of the worker come in between.
C39_CooldownEnds ==
  /\ [][/\ (MoveRequest /\ sent' # sent) => game'.movementCooldown
        /\ CooldownTimeout =>
             /\ ~game'.movementCooldown
             /\ ~game'.state.isMoving
             /\ \E j \in 1..Len(sent) :
                  IsMoveCommand(sent[j]) /\ now = sent[j].at + 200]_vars
  /\ game.movementCooldown ~> (~game.movementCooldown /\ ~game.state.isMoving)

\* C39 witness: a move was accepted, stop() was called inside its window,
\* and 200 ms after the move the cooldown is cleared, isMoving is false and
\* no timeout is pending
C39_Witness ==
  /\ Len(sent) = 2
  /\ IsMoveCommand(sent[2])
  /\ now = sent[2].at + 200
  /\ lastInput = <<"stop">>
  /\ ~game.isRunning
  /\ ~game.movementCooldown
  /\ ~game.state.isMoving
  /\ timeouts = <<>>

\* nothing is on its way on the channel, in either direction
ChannelEmpty == commands = <<>> /\ inflight = <<>>

\* C35: whenever no command and no event is on its way on the channel, the
\* position, terrain, facing and idleState of the controller are the
\* position, currentTerrain, facing and idleState of the engine
C35_ControllerFollowsEngine ==
  ChannelEmpty =>
    /\ game.state.position = gameState.position
    /\ game.state.terrain = gameState.currentTerrain
    /\ game.state.facing = gameState.facing
    /\ game.state.idleState = gameState.idleState

C35_Witness ==
  /\ ChannelEmpty
  /\ now = 500
  /\ gameState.position = [x |-> 2, y |-> 1]
  /\ game.state.position = [x |-> 2, y |-> 1]
  /\ gameState.idleState = RESTING
  /\ game.state.idleState = RESTING
  /\ game.state.facing = "up"

==========================================================================
